---- MODULE Spec2Model ----
(***************************************************************************)
(* Model of the Voice_Agent session chat pipeline:                         *)
(*   app/services/chat_session.py  (ChatSessionManager, the Session Store) *)
(*   app/services/stt.py, llm.py, tts.py  (the three gateways)             *)
(*   app/routers/chat.py  (chat_with_session and its fallback branch)      *)
(*   app/routers/llm.py  (llm_query, the one-shot pipeline)                *)
(*   main.py  (the legacy agent_chat and llm_query, their speech step)     *)
(*                                                                         *)
(* A Python str is a sequence of symbols (one-character strings, or one    *)
(* opaque chunk for canned texts whose characters the code never looks     *)
(* at).  None is the one-symbol sequence <<"None">>.                       *)
(*                                                                         *)
(* ChatResponse is modelled with the pydantic semantics under which the    *)
(* handler's success path validates: an Optional field that is not passed  *)
(* is filled with None, is_fallback with its default False.                *)
(*                                                                         *)
(* Specifications:                                                         *)
(*   Spec      one request at a time; the handler from file.read() to its  *)
(*             return is one step (it never yields the event loop there)   *)
(*   FairSpec  Spec with the event loop resuming a suspended handler       *)
(*   LoopSpec  two requests in flight, the handler taken call by call      *)
(*   StoreSpec the session manager and the read-only endpoints alone       *)
(*   QuerySpec the one-shot llm_query endpoint, one request per step       *)
(*   GatewaySpec the gateway methods and their helpers called directly     *)
(*   LegacySpec the speech step of main.py's agent_chat and llm_query      *)
(*   LongSpec  one request at a time, LLM answers around the Murf limit    *)
(***************************************************************************)
EXTENDS Integers, Sequences, FiniteSets, TLC

\* ------------------------------------------------------------------ bounds
MaxTurns == 3

\* ------------------------------------------------------- program constants
TTS_TIMEOUT == 10
FALLBACK_TTS_TIMEOUT == 5
MURF_MAX_CHARS == 3000

\* ------------------------------------------------------------ Python values
None == <<"None">>

Truthy(x) == x /= None /\ x /= <<>>

Str(s) == <<s>>

IsSpace(c) == c \in {" ", "\n", "\t"}

RECURSIVE lstrip(_)
lstrip(s) == IF s /= <<>> /\ IsSpace(Head(s)) THEN lstrip(Tail(s)) ELSE s

RECURSIVE rstrip(_)
rstrip(s) ==
  IF s /= <<>> /\ IsSpace(s[Len(s)]) THEN rstrip(SubSeq(s, 1, Len(s) - 1)) ELSE s

strip(s) == rstrip(lstrip(s))

UpperLetters ==
  <<"A", "B", "C", "D", "E", "F", "G", "H", "I", "J", "K", "L", "M",
    "N", "O", "P", "Q", "R", "S", "T", "U", "V", "W", "X", "Y", "Z">>

LowerLetters ==
  <<"a", "b", "c", "d", "e", "f", "g", "h", "i", "j", "k", "l", "m",
    "n", "o", "p", "q", "r", "s", "t", "u", "v", "w", "x", "y", "z">>

LowerChar(c) ==
  IF \E i \in DOMAIN UpperLetters : UpperLetters[i] = c
  THEN LowerLetters[CHOOSE i \in DOMAIN UpperLetters : UpperLetters[i] = c]
  ELSE c

lower(s) == [i \in 1..Len(s) |-> LowerChar(s[i])]

Contains(needle, s) ==
  \E i \in 1..(Len(s) - Len(needle) + 1) : SubSeq(s, i, i + Len(needle) - 1) = needle

\* ------------------------------------------------------------ the inputs
SessionIds == {"s1", "s2"}
Requests == {"r1", "r2"}
Roles == {"user", "assistant"}

ALLOWED_AUDIO_TYPES ==
  {"audio/webm", "audio/wav", "audio/mp3", "audio/m4a", "audio/ogg", "audio/opus"}
ContentTypes == {"audio/webm", "video/mp4"}

DefaultModel == Str("gemini-1.5-flash")
DefaultVoice == Str("en-US-natalie")
FileName == Str("voice.webm")

Hello == <<"h", "i">>
Yo == <<"y", "o">>
HiThere == <<"o", "k">>
Url1 == Str("https://audio/1.mp3")

\* what the AssemblyAI call can do: a transcript object or an exception
STTRemotes ==
  { [kind |-> "completed", text |-> Hello],
    [kind |-> "completed", text |-> <<" ">> \o Yo \o <<" ">>],
    [kind |-> "completed", text |-> <<" ">>],
    [kind |-> "completed", text |-> None],
    [kind |-> "error", text |-> None],
    [kind |-> "raise", text |-> None] }

Msg429 == <<"4", "2", "9">>
MsgQuota == <<"Q", "u", "o", "t", "a">>
MsgApiKey == <<"A", "P", "I", " ", "k", "e", "y">>
MsgTimeout == <<"t", "i", "m", "e", "o", "u", "t">>
MsgBoom == <<"b", "o", "o", "m">>
ErrorMessages == {Msg429, MsgQuota, MsgApiKey, MsgTimeout, MsgBoom}

\* what the Gemini call can do: a result object (text attribute, candidate
\* parts) or an exception carrying a message
LLMRemotes ==
  { [kind |-> "result", text |-> HiThere, parts |-> <<>>, msg |-> None],
    [kind |-> "result", text |-> None, parts |-> <<HiThere>>, msg |-> None],
    [kind |-> "result", text |-> <<" ">>, parts |-> <<>>, msg |-> None],
    [kind |-> "result", text |-> None, parts |-> <<>>, msg |-> None] }
  \cup { [kind |-> "raise", text |-> None, parts |-> <<>>, msg |-> m] :
           m \in {Msg429, MsgApiKey, MsgBoom} }

\* what the Murf call can do: an HTTP response or an exception
TTSRemotes ==
  { [kind |-> "response", status |-> 200, audioFile |-> Url1],
    [kind |-> "response", status |-> 200, audioFile |-> None],
    [kind |-> "response", status |-> 500, audioFile |-> None],
    [kind |-> "Timeout", status |-> 0, audioFile |-> None] }

Configs == [llm : BOOLEAN, stt : BOOLEAN, tts : BOOLEAN]

\* ------------------------------------ Session Store (ChatSessionManager)
\* self._sessions is a dict: a function whose domain is the set of stored ids

get_session_history_nodefault(S, session_id) ==
  IF session_id \in DOMAIN S THEN S[session_id] ELSE None

get_session_history(S, session_id) ==
  IF session_id \in DOMAIN S THEN S[session_id] ELSE <<>>

add_message_prepend(S, session_id, role, content) ==
  LET base == IF session_id \in DOMAIN S THEN S ELSE S @@ (session_id :> <<>>)
  IN  [base EXCEPT ![session_id] = <<[role |-> role, content |-> content]>> \o @]

add_message_dedup(S, session_id, role, content) ==
  LET base == IF session_id \in DOMAIN S THEN S ELSE S @@ (session_id :> <<>>)
      turn == [role |-> role, content |-> content]
  IN  IF \E i \in 1..Len(base[session_id]) : base[session_id][i] = turn
      THEN base
      ELSE [base EXCEPT ![session_id] = Append(@, turn)]

add_message(S, session_id, role, content) ==
  LET base == IF session_id \in DOMAIN S THEN S ELSE S @@ (session_id :> <<>>)
  IN  [base EXCEPT ![session_id] = Append(@, [role |-> role, content |-> content])]

get_message_count(S, session_id) ==
  Len(IF session_id \in DOMAIN S THEN S[session_id] ELSE <<>>)

clear_session_keeps_key(S, session_id) ==
  IF session_id \in DOMAIN S
  THEN [sessions |-> [S EXCEPT ![session_id] = <<>>], result |-> TRUE]
  ELSE [sessions |-> S, result |-> FALSE]

clear_session_all(S, session_id) ==
  IF session_id \in DOMAIN S
  THEN [sessions |-> <<>>, result |-> TRUE]
  ELSE [sessions |-> S, result |-> FALSE]

clear_session(S, session_id) ==
  IF session_id \in DOMAIN S
  THEN [sessions |-> [k \in DOMAIN S \ {session_id} |-> S[k]], result |-> TRUE]
  ELSE [sessions |-> S, result |-> FALSE]

get_active_sessions(S) == DOMAIN S

RECURSIVE SumLen(_, _)
SumLen(S, ids) ==
  IF ids = {} THEN 0
  ELSE LET k == CHOOSE x \in ids : TRUE IN Len(S[k]) + SumLen(S, ids \ {k})

\* a / b of two ints: the quotient kept as numerator and denominator, or
\* ZeroDivisionError
truediv(a, b) ==
  IF b = 0 THEN [raised |-> TRUE, num |-> 0, den |-> 0]
  ELSE [raised |-> FALSE, num |-> a, den |-> b]

\* the int literal 0 as a quotient
Zero == [raised |-> FALSE, num |-> 0, den |-> 1]

get_session_stats_unguarded(S) ==
  LET total_sessions == Cardinality(DOMAIN S)
      total_messages == SumLen(S, DOMAIN S)
  IN  [total_sessions |-> total_sessions,
       total_messages |-> total_messages,
       average_messages_per_session |-> truediv(total_messages, total_sessions)]

get_session_stats(S) ==
  LET total_sessions == Cardinality(DOMAIN S)
      total_messages == SumLen(S, DOMAIN S)
  IN  [total_sessions |-> total_sessions,
       total_messages |-> total_messages,
       average_messages_per_session |->
         IF total_sessions > 0 THEN truediv(total_messages, total_sessions)
         ELSE Zero]

\* --------------------------------------------------------- the gateways
\* A gateway method returns [raised, value, calls]: whether it raised to its
\* caller, the value it returned, and the remote calls it made.  A remote
\* call is logged as [gw, text, timeout, remote]; timeout 0 stands for a call
\* issued without any timeout argument.

RemoteCall(gw, text, timeout, remote) ==
  [gw |-> gw, text |-> text, timeout |-> timeout, remote |-> remote]

Returned(v, calls) == [raised |-> FALSE, value |-> v, calls |-> calls]
Raised(calls) == [raised |-> TRUE, value |-> None, calls |-> calls]

stt_is_configured_always(cfg) == TRUE
stt_is_configured(cfg) == cfg.stt
llm_is_configured_always(cfg) == TRUE
llm_is_configured(cfg) == cfg.llm
tts_is_configured(cfg) == cfg.tts

validate_audio_format(content_type) == content_type \in ALLOWED_AUDIO_TYPES

transcribe_audio_nostrip(cfg, remote) ==
  IF ~stt_is_configured(cfg) THEN Raised(<<>>)
  ELSE LET calls == <<RemoteCall("STT", None, 0, remote)>>
           transcribed_text == IF Truthy(remote.text) THEN remote.text ELSE <<>>
       IN  IF remote.kind = "raise" THEN Returned(None, calls)
           ELSE IF remote.kind = "error" THEN Returned(None, calls)
           ELSE IF ~Truthy(transcribed_text) THEN Returned(None, calls)
           ELSE Returned(transcribed_text, calls)

transcribe_audio_uncaught(cfg, remote) ==
  IF ~stt_is_configured(cfg) THEN Raised(<<>>)
  ELSE LET calls == <<RemoteCall("STT", None, 0, remote)>>
           transcribed_text ==
             strip(IF Truthy(remote.text) THEN remote.text ELSE <<>>)
       IN  IF remote.kind = "raise" THEN Raised(calls)
           ELSE IF remote.kind = "error" THEN Returned(None, calls)
           ELSE IF ~Truthy(transcribed_text) THEN Returned(None, calls)
           ELSE Returned(transcribed_text, calls)

transcribe_audio(cfg, remote) ==
  IF ~stt_is_configured(cfg) THEN Raised(<<>>)
  ELSE LET calls == <<RemoteCall("STT", None, 0, remote)>>
           transcribed_text ==
             strip(IF Truthy(remote.text) THEN remote.text ELSE <<>>)
       IN  IF remote.kind = "raise" THEN Returned(None, calls)
           ELSE IF remote.kind = "error" THEN Returned(None, calls)
           ELSE IF ~Truthy(transcribed_text) THEN Returned(None, calls)
           ELSE Returned(transcribed_text, calls)

RECURSIVE JoinLines(_)
JoinLines(parts) ==
  IF parts = <<>> THEN <<>>
  ELSE IF Len(parts) = 1 THEN parts[1]
  ELSE parts[1] \o <<"\n">> \o JoinLines(Tail(parts))

_extract_response_text_nostrip(result) ==
  IF Truthy(result.text) THEN result.text
  ELSE LET response_text == JoinLines(result.parts)
       IN  IF Truthy(response_text) THEN response_text ELSE None

_extract_response_text(result) ==
  IF Truthy(result.text) THEN strip(result.text)
  ELSE LET response_text == JoinLines(result.parts)
       IN  IF Truthy(response_text) THEN strip(response_text) ELSE None

SystemInstruction ==
  Str("System: You are a helpful AI assistant. Respond naturally and remember the conversation context.\n\n")

RECURSIVE ConversationText(_)
ConversationText(history) ==
  IF history = <<>> THEN <<>>
  ELSE (IF Head(history).role = "user" THEN Str("User: ") ELSE Str("Assistant: "))
       \o Head(history).content \o <<"\n">> \o ConversationText(Tail(history))

\* the one-shot call; the temperature (in tenths) goes into the request as
\* it was given
generate_response(cfg, prompt, temperature, system_instruction, remote) ==
  IF ~llm_is_configured(cfg) THEN Raised(<<>>)
  ELSE LET full_prompt ==
             IF Truthy(system_instruction)
             THEN Str("System: ") \o system_instruction \o <<"\n", "\n">>
                    \o Str("User: ") \o prompt
             ELSE prompt
           calls == <<RemoteCall("LLM", full_prompt, 0, remote)
                        @@ [temperature |-> temperature]>>
           response_text == _extract_response_text(remote)
       IN  IF remote.kind = "raise" THEN Returned(None, calls)
           ELSE IF ~Truthy(response_text) THEN Returned(None, calls)
           ELSE Returned(response_text, calls)

generate_conversational_response_last_turn_only(cfg, conversation_history, remote) ==
  IF ~llm_is_configured(cfg) THEN Raised(<<>>)
  ELSE LET full_conversation ==
             SystemInstruction
               \o ConversationText(<<conversation_history[Len(conversation_history)]>>)
               \o Str("Assistant:")
           calls == <<RemoteCall("LLM", full_conversation, 0, remote)>>
           response_text == _extract_response_text(remote)
       IN  IF remote.kind = "raise" THEN Returned(None, calls)
           ELSE IF ~Truthy(response_text) THEN Returned(None, calls)
           ELSE Returned(response_text, calls)

generate_conversational_response(cfg, conversation_history, remote) ==
  IF ~llm_is_configured(cfg) THEN Raised(<<>>)
  ELSE LET full_conversation ==
             SystemInstruction \o ConversationText(conversation_history)
               \o Str("Assistant:")
           calls == <<RemoteCall("LLM", full_conversation, 0, remote)>>
           response_text == _extract_response_text(remote)
       IN  IF remote.kind = "raise" THEN Returned(None, calls)
           ELSE IF ~Truthy(response_text) THEN Returned(None, calls)
           ELSE Returned(response_text, calls)

get_error_type_auth_first(error_message) ==
  LET error_str == lower(error_message)
  IN  IF Contains(<<"a", "p", "i", " ", "k", "e", "y">>, error_str)
           \/ Contains(<<"a", "u", "t", "h", "e", "n", "t", "i", "c", "a", "t", "i", "o", "n">>, error_str)
      THEN "LLM_AUTH_ERROR"
      ELSE IF Contains(<<"q", "u", "o", "t", "a">>, error_str)
                \/ Contains(<<"4", "2", "9">>, error_str)
      THEN "LLM_QUOTA_ERROR"
      ELSE IF Contains(<<"n", "e", "t", "w", "o", "r", "k">>, error_str)
                \/ Contains(<<"c", "o", "n", "n", "e", "c", "t", "i", "o", "n">>, error_str)
                \/ Contains(<<"t", "i", "m", "e", "o", "u", "t">>, error_str)
      THEN "LLM_NETWORK_ERROR"
      ELSE "LLM_GENERAL_ERROR"

get_error_type(error_message) ==
  LET error_str == lower(error_message)
  IN  IF Contains(<<"q", "u", "o", "t", "a">>, error_str)
           \/ Contains(<<"4", "2", "9">>, error_str)
      THEN "LLM_QUOTA_ERROR"
      ELSE IF Contains(<<"a", "p", "i", " ", "k", "e", "y">>, error_str)
                \/ Contains(<<"a", "u", "t", "h", "e", "n", "t", "i", "c", "a", "t", "i", "o", "n">>, error_str)
      THEN "LLM_AUTH_ERROR"
      ELSE IF Contains(<<"n", "e", "t", "w", "o", "r", "k">>, error_str)
                \/ Contains(<<"c", "o", "n", "n", "e", "c", "t", "i", "o", "n">>, error_str)
                \/ Contains(<<"t", "i", "m", "e", "o", "u", "t">>, error_str)
      THEN "LLM_NETWORK_ERROR"
      ELSE "LLM_GENERAL_ERROR"

get_fallback_message_no_default(error_type) ==
  CASE error_type = "LLM_QUOTA_ERROR" ->
         Str("I've reached my daily conversation limit. Please try again tomorrow, or consider upgrading for unlimited conversations!")
    [] error_type = "LLM_AUTH_ERROR" ->
         Str("I'm having authentication issues right now. Please try again in a few moments.")
    [] error_type = "LLM_NETWORK_ERROR" ->
         Str("I'm having trouble connecting to my AI brain right now. Please try again in a moment!")
    [] error_type = "LLM_GENERAL_ERROR" ->
         Str("I'm experiencing some technical difficulties right now. Please try asking your question again!")
    [] OTHER -> None

get_fallback_message(error_type) ==
  CASE error_type = "LLM_QUOTA_ERROR" ->
         Str("I've reached my daily conversation limit. Please try again tomorrow, or consider upgrading for unlimited conversations!")
    [] error_type = "LLM_AUTH_ERROR" ->
         Str("I'm having authentication issues right now. Please try again in a few moments.")
    [] error_type = "LLM_NETWORK_ERROR" ->
         Str("I'm having trouble connecting to my AI brain right now. Please try again in a moment!")
    [] OTHER ->
         Str("I'm experiencing some technical difficulties right now. Please try asking your question again!")

TruncationMarker ==
  <<".", ".", ".", " ", "(", "t", "r", "u", "n", "c", "a", "t", "e", "d", ")">>

generate_speech_cut_at_limit(cfg, text, voice_id, remote) ==
  IF ~tts_is_configured(cfg) THEN Raised(<<>>)
  ELSE LET sent == IF Len(text) > MURF_MAX_CHARS
                   THEN SubSeq(text, 1, MURF_MAX_CHARS) \o TruncationMarker
                   ELSE text
           calls == <<RemoteCall("TTS", sent, TTS_TIMEOUT, remote)>>
       IN  IF remote.kind /= "response" THEN Returned(None, calls)
           ELSE IF remote.status = 200
           THEN (IF Truthy(remote.audioFile)
                 THEN Returned(remote.audioFile, calls)
                 ELSE Returned(None, calls))
           ELSE Returned(None, calls)

generate_speech(cfg, text, voice_id, remote) ==
  IF ~tts_is_configured(cfg) THEN Raised(<<>>)
  ELSE LET sent == IF Len(text) > MURF_MAX_CHARS
                   THEN SubSeq(text, 1, MURF_MAX_CHARS - 20) \o TruncationMarker
                   ELSE text
           calls == <<RemoteCall("TTS", sent, TTS_TIMEOUT, remote)>>
       IN  IF remote.kind /= "response" THEN Returned(None, calls)
           ELSE IF remote.status = 200
           THEN (IF Truthy(remote.audioFile)
                 THEN Returned(remote.audioFile, calls)
                 ELSE Returned(None, calls))
           ELSE Returned(None, calls)

generate_fallback_speech_normal_timeout(cfg, message, voice_id, remote) ==
  IF ~tts_is_configured(cfg) THEN Returned(None, <<>>)
  ELSE LET calls == <<RemoteCall("TTS", message, TTS_TIMEOUT, remote)>>
       IN  IF remote.kind = "response" /\ remote.status = 200
                /\ Truthy(remote.audioFile)
           THEN Returned(remote.audioFile, calls)
           ELSE Returned(None, calls)

generate_fallback_speech(cfg, message, voice_id, remote) ==
  IF ~tts_is_configured(cfg) THEN Returned(None, <<>>)
  ELSE LET calls == <<RemoteCall("TTS", message, FALLBACK_TTS_TIMEOUT, remote)>>
       IN  IF remote.kind = "response" /\ remote.status = 200
                /\ Truthy(remote.audioFile)
           THEN Returned(remote.audioFile, calls)
           ELSE Returned(None, calls)

\* ------------------------------------------- the chat router (chat.py)
\* An HTTP response is [status, body]; a handler step returns
\* [sessions, calls, adds, response]: the store it leaves, the remote calls
\* it made, the number of add_message calls it made, and what it returns.

Response(status, body) == [status |-> status, body |-> body]

Step(S, calls, adds, response) ==
  [sessions |-> S, calls |-> calls, adds |-> adds, response |-> response]

STT_FALLBACK_MESSAGE ==
  Str("I'm having trouble understanding your audio right now. Please try speaking again or check your microphone.")

HTTPException(status, detail) == Response(status, [detail |-> detail])

ChatResponse_raw(response_data) == response_data

ChatResponse(response_data) ==
  response_data @@ [is_fallback |-> FALSE, error_type |-> None, tts_error |-> None]

_generate_fallback_response(S, cfg, session_id, message, voice_id, error_type, ttsR) ==
  LET speech == IF tts_is_configured(cfg)
                THEN generate_fallback_speech(cfg, message, voice_id, ttsR)
                ELSE Returned(None, <<>>)
      audio_url == speech.value
      message_count == get_message_count(S, session_id)
      fallback_data ==
        [session_id |-> session_id,
         error_type |-> Str(error_type),
         transcription |-> None,
         llm_response |-> message,
         audio_url |-> audio_url,
         voiceId |-> voice_id,
         is_fallback |-> TRUE,
         message_count |-> message_count]
  IN  [calls |-> speech.calls,
       response |->
         IF Truthy(audio_url)
         THEN Response(200, fallback_data)
         ELSE Response(503, [error |-> message,
                             error_type |-> Str(error_type),
                             fallback_text |-> message,
                             service_unavailable |-> TRUE])]

\* validate_audio_format takes no default parameter values, so its
\* __defaults__ attribute is None
validate_audio_format_defaults == None

\* the detail text of the rejection subscripts __defaults__; subscripting
\* None raises TypeError before the HTTPException is constructed
UnsupportedTypeDetail(content_type) ==
  IF validate_audio_format_defaults = None
  THEN Raised(<<>>)
  ELSE Returned(Str("Unsupported file type"), <<>>)

chat_validate_uncaught(cfg, content_type) ==
  IF ~llm_is_configured(cfg)
  THEN Response(503, [error |-> Str("LLM service unavailable - API key not configured"),
                      service_type |-> Str("LLM")])
  ELSE IF ~validate_audio_format(content_type)
  THEN LET detail == UnsupportedTypeDetail(content_type)
       IN  IF detail.raised
           THEN Response(-1, "TypeError")
           ELSE HTTPException(400, detail.value)
  ELSE Response(0, "continue")

\* chat_with_session up to its first suspension point, await file.read():
\* the value "continue" stands for reaching it
chat_validate(cfg, content_type) ==
  IF ~llm_is_configured(cfg)
  THEN Response(503, [error |-> Str("LLM service unavailable - API key not configured"),
                      service_type |-> Str("LLM")])
  ELSE IF ~validate_audio_format(content_type)
  THEN LET detail == UnsupportedTypeDetail(content_type)
       IN  IF detail.raised
           THEN HTTPException(500, Str("Internal server error"))
           ELSE HTTPException(400, detail.value)
  ELSE Response(0, "continue")

chat_synthesize_silent(cfg, llm_response, voice_id, ttsR) ==
  IF tts_is_configured(cfg)
  THEN LET speech == generate_speech(cfg, llm_response, voice_id, ttsR)
       IN  [audio_url |-> speech.value, tts_error |-> None, calls |-> speech.calls]
  ELSE [audio_url |-> None, tts_error |-> Str("TTS service not configured"), calls |-> <<>>]

chat_synthesize_retry(cfg, llm_response, voice_id, ttsR) ==
  IF tts_is_configured(cfg)
  THEN LET speech == generate_speech(cfg, llm_response, voice_id, ttsR)
           again == generate_fallback_speech(cfg, llm_response, voice_id, ttsR)
       IN  IF speech.raised
           THEN [audio_url |-> None, tts_error |-> Str("TTS error"), calls |-> speech.calls]
           ELSE IF Truthy(speech.value)
           THEN [audio_url |-> speech.value, tts_error |-> None, calls |-> speech.calls]
           ELSE [audio_url |-> again.value,
                 tts_error |-> Str("Audio generation failed"),
                 calls |-> speech.calls \o again.calls]
  ELSE [audio_url |-> None, tts_error |-> Str("TTS service not configured"), calls |-> <<>>]

\* the TTS stage of the success path
chat_synthesize(cfg, llm_response, voice_id, ttsR) ==
  IF tts_is_configured(cfg)
  THEN LET speech == generate_speech(cfg, llm_response, voice_id, ttsR)
       IN  IF speech.raised
           THEN [audio_url |-> None, tts_error |-> Str("TTS error"), calls |-> speech.calls]
           ELSE IF Truthy(speech.value)
           THEN [audio_url |-> speech.value, tts_error |-> None, calls |-> speech.calls]
           ELSE [audio_url |-> speech.value,
                 tts_error |-> Str("Audio generation failed"), calls |-> speech.calls]
  ELSE [audio_url |-> None, tts_error |-> Str("TTS service not configured"), calls |-> <<>>]

\* the end of the success path: the count is read and the outcome built
chat_respond_truncated(S, session_id, model, voice_id, user_message, llm_response, tts) ==
  LET message_count == get_message_count(S, session_id)
      spoken == IF Len(llm_response) > MURF_MAX_CHARS
                THEN SubSeq(llm_response, 1, MURF_MAX_CHARS - 20) \o TruncationMarker
                ELSE llm_response
      response_data ==
        [session_id |-> session_id,
         model |-> model,
         transcription |-> user_message,
         llm_response |-> spoken,
         audio_url |-> tts.audio_url,
         voiceId |-> voice_id,
         filename |-> FileName,
         message_count |-> message_count]
      with_error ==
        IF Truthy(tts.tts_error) /\ ~Truthy(tts.audio_url)
        THEN [tts_error |-> tts.tts_error, error_type |-> Str("TTS_ERROR")]
               @@ response_data
        ELSE response_data
  IN  Response(200, ChatResponse(with_error))

chat_respond(S, session_id, model, voice_id, user_message, llm_response, tts) ==
  LET message_count == get_message_count(S, session_id)
      response_data ==
        [session_id |-> session_id,
         model |-> model,
         transcription |-> user_message,
         llm_response |-> llm_response,
         audio_url |-> tts.audio_url,
         voiceId |-> voice_id,
         filename |-> FileName,
         message_count |-> message_count]
      with_error ==
        IF Truthy(tts.tts_error) /\ ~Truthy(tts.audio_url)
        THEN [tts_error |-> tts.tts_error, error_type |-> Str("TTS_ERROR")]
               @@ response_data
        ELSE response_data
  IN  Response(200, ChatResponse(with_error))

\* chat_with_session from file.read() to its return; nothing in it suspends
chat_process(S, cfg, session_id, model, voice_id, sttR, llmR, ttsR) ==
  IF ~stt_is_configured(cfg)
  THEN LET fb == _generate_fallback_response(S, cfg, session_id,
                   STT_FALLBACK_MESSAGE, voice_id, "STT_ERROR", ttsR)
       IN  Step(S, fb.calls, 0, fb.response)
  ELSE
  LET stt == transcribe_audio(cfg, sttR)
      user_message == stt.value
  IN
  IF stt.raised
  THEN Step(S, stt.calls, 0, HTTPException(500, Str("Internal server error")))
  ELSE IF ~Truthy(user_message)
  THEN LET fb == _generate_fallback_response(S, cfg, session_id,
                   STT_FALLBACK_MESSAGE, voice_id, "STT_ERROR", ttsR)
       IN  Step(S, stt.calls \o fb.calls, 0, fb.response)
  ELSE
  LET S1 == add_message(S, session_id, "user", user_message)
      conversation_history == get_session_history(S1, session_id)
      llm == generate_conversational_response(cfg, conversation_history, llmR)
      llm_response == llm.value
  IN
  IF llm.raised
  THEN Step(S1, stt.calls \o llm.calls, 1,
            HTTPException(500, Str("Internal server error")))
  ELSE IF ~Truthy(llm_response)
  THEN LET error_type == "LLM_GENERAL_ERROR"
           fb == _generate_fallback_response(S1, cfg, session_id,
                   get_fallback_message(error_type), voice_id, error_type, ttsR)
       IN  Step(S1, stt.calls \o llm.calls \o fb.calls, 1, fb.response)
  ELSE
  LET S2 == add_message(S1, session_id, "assistant", llm_response)
      tts == chat_synthesize(cfg, llm_response, voice_id, ttsR)
  IN  Step(S2, stt.calls \o llm.calls \o tts.calls, 2,
           chat_respond(S2, session_id, model, voice_id,
                        user_message, llm_response, tts))

\* --------------------------------------- the one-shot router (llm.py)
\* llm_query keeps nothing between requests; it returns [calls, response]

NoFile == "no file"

\* LLMQueryResponse(**response_data): the six declared fields; a key that
\* is not a field of the model (tts_error) is dropped
LLMQueryResponse(response_data) ==
  [k \in {"transcription", "llm_response", "audio_url", "model", "voiceId",
          "filename"} |-> response_data[k]]

llm_query(cfg, file, text, model, temperature, system_instruction, voiceId, sttR, llmR, ttsR) ==
  LET Out(calls, response) == [calls |-> calls, response |-> response]
      stt == transcribe_audio(cfg, sttR)
      user_text == IF file /= NoFile THEN stt.value ELSE strip(text)
      before == IF file /= NoFile THEN stt.calls ELSE <<>>
      llm == generate_response(cfg, user_text, temperature, system_instruction, llmR)
      llm_response == llm.value
      tts == chat_synthesize(cfg, llm_response, voiceId, ttsR)
      response_data ==
        [transcription |-> IF file /= NoFile THEN user_text ELSE None,
         llm_response |-> llm_response,
         audio_url |-> tts.audio_url,
         model |-> model,
         voiceId |-> voiceId,
         filename |-> IF file /= NoFile THEN FileName ELSE None]
      with_error ==
        IF Truthy(tts.tts_error) /\ ~Truthy(tts.audio_url)
        THEN [tts_error |-> tts.tts_error] @@ response_data
        ELSE response_data
  IN
  IF ~llm_is_configured(cfg)
  THEN Out(<<>>, Response(503,
         [error |-> Str("LLM service unavailable - API key not configured"),
          service_type |-> Str("LLM")]))
  ELSE IF file /= NoFile /\ ~stt_is_configured(cfg)
  THEN Out(<<>>, Response(503,
         [error |-> Str("Transcription service unavailable for audio input"),
          service_type |-> Str("STT")]))
  ELSE IF file /= NoFile /\ ~validate_audio_format(file)
  THEN Out(<<>>, HTTPException(400, Str("Unsupported audio format")))
  ELSE IF file /= NoFile /\ ~Truthy(user_text)
  THEN Out(before, Response(500, [error |-> Str("Transcription failed"),
                                  service_type |-> Str("STT")]))
  ELSE IF file = NoFile /\ ~Truthy(text)
  THEN Out(<<>>, HTTPException(400, Str("Either audio file or text input is required")))
  ELSE IF ~Truthy(user_text)
  THEN Out(<<>>, HTTPException(400, Str("No valid input text found")))
  ELSE IF llm.raised
  THEN Out(before \o llm.calls, HTTPException(500, Str("Internal server error")))
  ELSE IF ~Truthy(llm_response)
  THEN LET error_type == "LLM_GENERAL_ERROR"
       IN  Out(before \o llm.calls,
               Response(500, [error |-> get_fallback_message(error_type),
                              error_type |-> Str(error_type),
                              service_type |-> Str("LLM")]))
  ELSE Out(before \o llm.calls \o tts.calls,
           Response(200, LLMQueryResponse(with_error)))

\* ------------------------------------------------------------ the state
VARIABLES
  config,     \* which gateways have credentials; fixed at startup
  sessions,   \* chat_manager._sessions
  addCalls,   \* per id: add_message calls made since its last clear_session
  req,        \* per request: position in chat_with_session, calls, response
  reply,      \* the last answer of the history / delete endpoints
  running,    \* the request whose handler occupies the event loop, or "none"
  frame,      \* per request: the handler's local variables between its calls
  last        \* the last call of a stateless operation: what it was given and gave

vars == <<config, sessions, addCalls, req, reply, running, frame, last>>

Idle == [pc |-> "idle", session_id |-> "s1", calls |-> <<>>,
         response |-> Response(0, "none")]

NoReply == [op |-> "none", session_id |-> "s1", status |-> 0,
            message_count |-> 0, history |-> <<>>,
            statistics |-> None, active_sessions |-> {}]

NoFrame == [user_message |-> None, user_index |-> 0,
            conversation_history |-> <<>>, llm_response |-> None,
            fallback_message |-> None, error_type |-> "none"]

NoCall == [op |-> "none", args |-> <<>>, result |-> <<>>]

Init ==
  /\ config \in Configs
  /\ sessions = <<>>
  /\ addCalls = [id \in SessionIds |-> 0]
  /\ req = [r \in Requests |-> Idle]
  /\ reply = NoReply
  /\ running = "none"
  /\ frame = [r \in Requests |-> NoFrame]
  /\ last = NoCall

\* every handler is a coroutine of one event loop: a handler starts or
\* resumes only while no other handler is between two of its awaits
loop_idle_threaded == TRUE

loop_idle == running = "none"

\* a request arrives: the handler runs up to await file.read()
ChatStart(r, session_id, content_type) ==
  /\ req[r].pc \in {"idle", "done"}
  /\ loop_idle
  /\ LET v == chat_validate(config, content_type)
     IN  /\ v.status = 0 => get_message_count(sessions, session_id) + 2 <= MaxTurns
         /\ req' = [req EXCEPT ![r] =
                      IF v.status = 0
                      THEN [pc |-> "reading", session_id |-> session_id,
                            calls |-> <<>>, response |-> Response(0, "none")]
                      ELSE [pc |-> "done", session_id |-> session_id,
                            calls |-> <<>>, response |-> v]]
  /\ UNCHANGED <<config, sessions, addCalls, reply, running, frame, last>>

\* a stage that is not reached makes no draw
SttDraws(cfg) ==
  IF stt_is_configured(cfg) THEN STTRemotes ELSE {CHOOSE x \in STTRemotes : TRUE}

LlmDraws(cfg, sttR) ==
  IF stt_is_configured(cfg) /\ Truthy(transcribe_audio(cfg, sttR).value)
  THEN LLMRemotes ELSE {CHOOSE x \in LLMRemotes : TRUE}

TtsDraws(cfg) ==
  IF tts_is_configured(cfg) THEN TTSRemotes ELSE {CHOOSE x \in TTSRemotes : TRUE}

\* file.read() completes and the handler runs to its return
ChatResume(r) ==
  /\ req[r].pc = "reading"
  /\ loop_idle
  /\ \E sttR \in SttDraws(config) :
       \E llmR \in LlmDraws(config, sttR), ttsR \in TtsDraws(config) :
         LET out == chat_process(sessions, config, req[r].session_id,
                                 DefaultModel, DefaultVoice, sttR, llmR, ttsR)
         IN  /\ sessions' = out.sessions
             /\ addCalls' = [addCalls EXCEPT ![req[r].session_id] = @ + out.adds]
             /\ req' = [req EXCEPT ![r] =
                          [pc |-> "done", session_id |-> req[r].session_id,
                           calls |-> out.calls, response |-> out.response]]
  /\ UNCHANGED <<config, reply, running, frame, last>>

\* DELETE /chat/{session_id}
ClearSession(session_id) ==
  /\ loop_idle
  /\ LET c == clear_session(sessions, session_id)
     IN  /\ sessions' = c.sessions
         /\ addCalls' = [addCalls EXCEPT ![session_id] = 0]
         /\ reply' = [NoReply EXCEPT !.op = "clear", !.session_id = session_id,
                                     !.status = IF c.result THEN 200 ELSE 404]
  /\ UNCHANGED <<config, req, running, frame, last>>

\* GET /chat/{session_id}/history
GetSessionHistory(session_id) ==
  /\ loop_idle
  /\ reply' = [NoReply EXCEPT
                 !.op = "history", !.session_id = session_id, !.status = 200,
                 !.message_count = get_message_count(sessions, session_id),
                 !.history = get_session_history(sessions, session_id)]
  /\ UNCHANGED <<config, sessions, addCalls, req, running, frame, last>>

\* GET /chat/stats
GetChatStats ==
  /\ loop_idle
  /\ LET stats == get_session_stats(sessions)
     IN  reply' =
           IF stats.average_messages_per_session.raised
           THEN [NoReply EXCEPT !.op = "stats", !.status = 500]
           ELSE [NoReply EXCEPT !.op = "stats", !.status = 200,
                                !.statistics = stats,
                                !.active_sessions = get_active_sessions(sessions)]
  /\ UNCHANGED <<config, sessions, addCalls, req, running, frame, last>>

\* chat_manager.add_message called directly
AddMessage(session_id, role, content) ==
  /\ get_message_count(sessions, session_id) < MaxTurns
  /\ sessions' = add_message(sessions, session_id, role, content)
  /\ addCalls' = [addCalls EXCEPT ![session_id] = @ + 1]
  /\ UNCHANGED <<config, req, reply, running, frame, last>>

\* one request at a time
Sequential == {"r1"}

Next ==
  \/ \E r \in Sequential, id \in SessionIds, ct \in ContentTypes :
       ChatStart(r, id, ct)
  \/ \E r \in Sequential : ChatResume(r)
  \/ \E id \in SessionIds : ClearSession(id)

Spec == Init /\ [][Next]_vars

\* the event loop resumes a handler whose file.read() has completed
FairSpec == Spec /\ \A r \in Sequential : WF_vars(ChatResume(r))

\* the session manager on its own
StoreTurns ==
  { [role |-> "user", content |-> Hello],
    [role |-> "user", content |-> Yo],
    [role |-> "assistant", content |-> HiThere] }

StoreNext ==
  \/ \E id \in SessionIds, t \in StoreTurns : AddMessage(id, t.role, t.content)
  \/ \E id \in SessionIds : ClearSession(id)
  \/ \E id \in SessionIds : GetSessionHistory(id)
  \/ GetChatStats

StoreSpec == Init /\ [][StoreNext]_vars

\* ------------------------------------------- the handler, call by call
\* The same handler with its position inside file.read()'s continuation
\* made visible: "stt", "llm", "tts" and "fallback_tts" are the positions
\* inside transcribe_audio, generate_conversational_response,
\* generate_speech and generate_fallback_speech. The calls are plain
\* (not awaited) calls, so the handler keeps the event loop while in them.

\* the handler returns
Finish(r, calls, response) ==
  /\ req' = [req EXCEPT ![r] = [pc |-> "done", session_id |-> req[r].session_id,
                                calls |-> calls, response |-> response]]
  /\ frame' = [frame EXCEPT ![r] = NoFrame]
  /\ running' = "none"

\* the handler reaches _generate_fallback_response with store S: it enters
\* generate_fallback_speech when speech synthesis is configured, and
\* returns at once otherwise
GoFallback(r, S, message, error_type, calls) ==
  IF tts_is_configured(config)
  THEN /\ req' = [req EXCEPT ![r].pc = "fallback_tts", ![r].calls = calls]
       /\ frame' = [frame EXCEPT ![r].fallback_message = message,
                                 ![r].error_type = error_type]
       /\ running' = r
  ELSE LET fb == _generate_fallback_response(S, config, req[r].session_id,
                   message, DefaultVoice, error_type,
                   CHOOSE x \in TTSRemotes : TRUE)
       IN  Finish(r, calls \o fb.calls, fb.response)

\* file.read() completes: the handler takes the event loop
ResumeAfterRead(r) ==
  /\ req[r].pc = "reading"
  /\ loop_idle
  /\ IF ~stt_is_configured(config)
     THEN GoFallback(r, sessions, STT_FALLBACK_MESSAGE, "STT_ERROR", <<>>)
     ELSE /\ req' = [req EXCEPT ![r].pc = "stt"]
          /\ running' = r
          /\ UNCHANGED frame
  /\ UNCHANGED <<config, sessions, addCalls, reply, last>>

\* transcribe_audio returns
SttReturns(r, sttR) ==
  /\ req[r].pc = "stt"
  /\ LET session_id == req[r].session_id
         stt == transcribe_audio(config, sttR)
         user_message == stt.value
         S1 == add_message(sessions, session_id, "user", user_message)
     IN  IF stt.raised
         THEN /\ Finish(r, stt.calls, HTTPException(500, Str("Internal server error")))
              /\ UNCHANGED <<sessions, addCalls>>
         ELSE IF ~Truthy(user_message)
         THEN /\ GoFallback(r, sessions, STT_FALLBACK_MESSAGE, "STT_ERROR", stt.calls)
              /\ UNCHANGED <<sessions, addCalls>>
         ELSE /\ sessions' = S1
              /\ addCalls' = [addCalls EXCEPT ![session_id] = @ + 1]
              /\ req' = [req EXCEPT ![r].pc = "llm", ![r].calls = stt.calls]
              /\ frame' = [frame EXCEPT
                             ![r].user_message = user_message,
                             ![r].user_index = get_message_count(S1, session_id),
                             ![r].conversation_history =
                                get_session_history(S1, session_id)]
              /\ UNCHANGED running
  /\ UNCHANGED <<config, reply, last>>

\* generate_conversational_response returns
LlmReturns(r, llmR) ==
  /\ req[r].pc = "llm"
  /\ LET session_id == req[r].session_id
         llm == generate_conversational_response(
                  config, frame[r].conversation_history, llmR)
         llm_response == llm.value
         calls == req[r].calls \o llm.calls
         S2 == add_message(sessions, session_id, "assistant", llm_response)
     IN  IF llm.raised
         THEN /\ Finish(r, calls, HTTPException(500, Str("Internal server error")))
              /\ UNCHANGED <<sessions, addCalls>>
         ELSE IF ~Truthy(llm_response)
         THEN /\ GoFallback(r, sessions, get_fallback_message("LLM_GENERAL_ERROR"),
                            "LLM_GENERAL_ERROR", calls)
              /\ UNCHANGED <<sessions, addCalls>>
         ELSE /\ sessions' = S2
              /\ addCalls' = [addCalls EXCEPT ![session_id] = @ + 1]
              /\ IF tts_is_configured(config)
                 THEN /\ req' = [req EXCEPT ![r].pc = "tts", ![r].calls = calls]
                      /\ frame' = [frame EXCEPT ![r].llm_response = llm_response]
                      /\ UNCHANGED running
                 ELSE Finish(r, calls,
                        chat_respond(S2, session_id, DefaultModel, DefaultVoice,
                          frame[r].user_message, llm_response,
                          chat_synthesize(config, llm_response, DefaultVoice,
                                          CHOOSE x \in TTSRemotes : TRUE)))
  /\ UNCHANGED <<config, reply, last>>

TtsReturns_refallback(r, ttsR) ==
  /\ req[r].pc = "tts"
  /\ LET tts == chat_synthesize(config, frame[r].llm_response, DefaultVoice, ttsR)
     IN  IF ~Truthy(tts.audio_url)
         THEN GoFallback(r, sessions, get_fallback_message("LLM_GENERAL_ERROR"),
                         "TTS_ERROR", req[r].calls \o tts.calls)
         ELSE Finish(r, req[r].calls \o tts.calls,
                chat_respond(sessions, req[r].session_id, DefaultModel,
                  DefaultVoice, frame[r].user_message, frame[r].llm_response, tts))
  /\ UNCHANGED <<config, sessions, addCalls, reply, last>>

\* generate_speech returns
TtsReturns(r, ttsR) ==
  /\ req[r].pc = "tts"
  /\ LET tts == chat_synthesize(config, frame[r].llm_response, DefaultVoice, ttsR)
     IN  Finish(r, req[r].calls \o tts.calls,
                chat_respond(sessions, req[r].session_id, DefaultModel,
                  DefaultVoice, frame[r].user_message, frame[r].llm_response, tts))
  /\ UNCHANGED <<config, sessions, addCalls, reply, last>>

\* generate_fallback_speech returns
FallbackTtsReturns(r, ttsR) ==
  /\ req[r].pc = "fallback_tts"
  /\ LET fb == _generate_fallback_response(sessions, config, req[r].session_id,
                 frame[r].fallback_message, DefaultVoice, frame[r].error_type, ttsR)
     IN  Finish(r, req[r].calls \o fb.calls, fb.response)
  /\ UNCHANGED <<config, sessions, addCalls, reply, last>>

\* the remote outcomes drawn when two requests are in flight
LoopSTTRemotes ==
  { [kind |-> "completed", text |-> Hello],
    [kind |-> "error", text |-> None] }

LoopLLMRemotes ==
  { [kind |-> "result", text |-> HiThere, parts |-> <<>>, msg |-> None],
    [kind |-> "raise", text |-> None, parts |-> <<>>, msg |-> MsgBoom] }

LoopTTSRemotes ==
  { [kind |-> "response", status |-> 200, audioFile |-> Url1],
    [kind |-> "Timeout", status |-> 0, audioFile |-> None] }

LoopNext ==
  \/ \E r \in Requests, id \in SessionIds, ct \in ContentTypes :
       ChatStart(r, id, ct)
  \/ \E r \in Requests : ResumeAfterRead(r)
  \/ \E r \in Requests, sttR \in LoopSTTRemotes : SttReturns(r, sttR)
  \/ \E r \in Requests, llmR \in LoopLLMRemotes : LlmReturns(r, llmR)
  \/ \E r \in Requests, ttsR \in LoopTTSRemotes : TtsReturns(r, ttsR)
  \/ \E r \in Requests, ttsR \in LoopTTSRemotes : FallbackTtsReturns(r, ttsR)
  \/ \E id \in SessionIds : ClearSession(id)

LoopSpec == Init /\ [][LoopNext]_vars

\* ------------------------------------------------- the one-shot query
\* temperatures in tenths: the default 0.7, the two ends of [0, 2], and
\* values below and above it
DefaultTemperature == 7

Temperatures == {DefaultTemperature, 0, 20, -1, 25}

QueryTexts == {None, <<>>, <<" ">>, Hello, <<" ">> \o Yo}

SystemInstructions == {None, Str("Answer briefly.")}

\* POST /llm/query
LlmQuery(file, text, temperature, system_instruction, sttR, llmR, ttsR) ==
  /\ loop_idle
  /\ last' = [op |-> "llm_query",
              args |-> [file |-> file, text |-> text, temperature |-> temperature,
                        system_instruction |-> system_instruction],
              result |-> llm_query(config, file, text, DefaultModel, temperature,
                                   system_instruction, DefaultVoice,
                                   sttR, llmR, ttsR)]
  /\ UNCHANGED <<config, sessions, addCalls, req, reply, running, frame>>

QueryNext ==
  \E file \in {NoFile} \cup ContentTypes, text \in QueryTexts,
     temperature \in Temperatures, system_instruction \in SystemInstructions,
     sttR \in LoopSTTRemotes, llmR \in LoopLLMRemotes, ttsR \in LoopTTSRemotes :
    LlmQuery(file, text, temperature, system_instruction, sttR, llmR, ttsR)

QuerySpec == Init /\ [][QueryNext]_vars

\* ------------------------------------------ the gateways called directly
\* error texts: one or two fragments, in mixed case, separated by a space
MsgAuthentication ==
  <<"A", "U", "T", "H", "E", "N", "T", "I", "C", "A", "T", "I", "O", "N">>
MsgNetwork == <<"N", "e", "t", "w", "o", "r", "k">>
MsgConnection == <<"c", "o", "n", "n", "e", "c", "t", "i", "o", "n">>
MsgTimeOut == <<"T", "i", "m", "e", "O", "u", "t">>
MsgApi == <<"a", "p", "i">>
MsgQuot == <<"q", "u", "o", "t">>

Fragments ==
  {Msg429, MsgQuota, MsgApiKey, MsgAuthentication, MsgNetwork, MsgConnection,
   MsgTimeOut, MsgBoom, MsgApi, MsgQuot}

ErrorTexts ==
  {<<>>} \cup Fragments \cup {a \o <<" ">> \o b : a \in Fragments, b \in Fragments}

ErrorLabels ==
  {"LLM_QUOTA_ERROR", "LLM_AUTH_ERROR", "LLM_NETWORK_ERROR", "LLM_GENERAL_ERROR",
   "STT_ERROR", "TTS_ERROR", "llm_quota_error", ""}

\* a text of n characters that differ from place to place
TextOfLen(n) ==
  [i \in 1..n |-> <<"0", "1", "2", "3", "4", "5", "6", "7", "8", "9">>[(i % 10) + 1]]

SpeechLengths ==
  {2, MURF_MAX_CHARS - 20, MURF_MAX_CHARS - 1, MURF_MAX_CHARS,
   MURF_MAX_CHARS + 1, MURF_MAX_CHARS + 40}

Call(op, args, result) == [op |-> op, args |-> args, result |-> result]

GetErrorType(error_message) ==
  /\ last' = Call("get_error_type", error_message, get_error_type(error_message))
  /\ UNCHANGED <<config, sessions, addCalls, req, reply, running, frame>>

GetFallbackMessage(error_type) ==
  /\ last' = Call("get_fallback_message", error_type, get_fallback_message(error_type))
  /\ UNCHANGED <<config, sessions, addCalls, req, reply, running, frame>>

TranscribeAudio(sttR) ==
  /\ last' = Call("transcribe_audio", sttR, transcribe_audio(config, sttR))
  /\ UNCHANGED <<config, sessions, addCalls, req, reply, running, frame>>

GenerateResponse(prompt, temperature, system_instruction, llmR) ==
  /\ last' = Call("generate_response", llmR,
                  generate_response(config, prompt, temperature,
                                    system_instruction, llmR))
  /\ UNCHANGED <<config, sessions, addCalls, req, reply, running, frame>>

GenerateConversationalResponse(conversation_history, llmR) ==
  /\ last' = Call("generate_conversational_response", llmR,
                  generate_conversational_response(config, conversation_history, llmR))
  /\ UNCHANGED <<config, sessions, addCalls, req, reply, running, frame>>

GenerateSpeech(n, ttsR) ==
  /\ last' = Call("generate_speech", [text |-> TextOfLen(n), remote |-> ttsR],
                  generate_speech(config, TextOfLen(n), DefaultVoice, ttsR))
  /\ UNCHANGED <<config, sessions, addCalls, req, reply, running, frame>>

GenerateFallbackSpeech(message, ttsR) ==
  /\ last' = Call("generate_fallback_speech", [text |-> message, remote |-> ttsR],
                  generate_fallback_speech(config, message, DefaultVoice, ttsR))
  /\ UNCHANGED <<config, sessions, addCalls, req, reply, running, frame>>

GatewayNext ==
  \/ \E m \in ErrorTexts : GetErrorType(m)
  \/ \E l \in ErrorLabels : GetFallbackMessage(l)
  \/ \E sttR \in STTRemotes : TranscribeAudio(sttR)
  \/ \E t \in Temperatures, si \in SystemInstructions, llmR \in LLMRemotes :
       GenerateResponse(Hello, t, si, llmR)
  \/ \E h \in {<<>>, <<[role |-> "user", content |-> Hello]>>}, llmR \in LLMRemotes :
       GenerateConversationalResponse(h, llmR)
  \/ \E n \in SpeechLengths, ttsR \in TTSRemotes : GenerateSpeech(n, ttsR)
  \/ \E ttsR \in TTSRemotes : GenerateFallbackSpeech(STT_FALLBACK_MESSAGE, ttsR)

GatewaySpec == Init /\ [][GatewayNext]_vars

\* ----------------------------------------- the legacy handlers (main.py)
\* The speech step of main.py's agent_chat and llm_query, from the response
\* text in hand to the return of the handler. Both build the Murf request
\* themselves; cfg.tts stands for MURF_API_KEY being set.

LEGACY_MURF_LIMIT == 3000
LEGACY_KEEP == 2980
AGENT_CHAT_TTS_TIMEOUT == 30

AgentChatMarker ==
  <<".", ".", ".", " ", "(", "t", "r", "u", "n", "c", "a", "t", "e", "d", " ",
    "f", "o", "r", " ", "a", "u", "d", "i", "o", ")">>

\* tts_text of agent_chat
agent_chat_tts_text(llm_response) ==
  IF Len(llm_response) > LEGACY_MURF_LIMIT
  THEN SubSeq(llm_response, 1, LEGACY_KEEP) \o AgentChatMarker
  ELSE llm_response

\* llm_response of llm_query after its truncation step
main_llm_query_truncate(llm_response) ==
  IF Len(llm_response) > LEGACY_MURF_LIMIT
  THEN SubSeq(llm_response, 1, LEGACY_KEEP) \o TruncationMarker
  ELSE llm_response

\* agent_chat from "Generate TTS audio for the response" to its return
agent_chat_speech(cfg, session_id, model, voiceId, user_message, llm_response, message_count, remote) ==
  LET tts_text == agent_chat_tts_text(llm_response)
      calls == IF cfg.tts
               THEN <<RemoteCall("TTS", tts_text, AGENT_CHAT_TTS_TIMEOUT, remote)>>
               ELSE <<>>
      audio_url == IF cfg.tts /\ remote.kind = "response" /\ remote.status = 200
                   THEN remote.audioFile ELSE None
      body == [session_id |-> session_id, model |-> model,
               transcription |-> user_message, llm_response |-> llm_response,
               audio_url |-> audio_url, voiceId |-> voiceId,
               filename |-> FileName, message_count |-> message_count]
  IN  [calls |-> calls,
       response |->
         IF Truthy(audio_url)
         THEN Response(200, body)
         ELSE Response(200,
                [tts_error |-> Str("Audio generation failed, displaying text response only"),
                 error_type |-> Str("TTS_ERROR")] @@ body)]

\* llm_query of main.py from "If audio was provided" to its return
main_llm_query_speech(file, model, voiceId, transcription, llm_response, remote) ==
  LET truncated == main_llm_query_truncate(llm_response)
      calls == <<RemoteCall("TTS", truncated, 0, remote)>>
  IN  IF file = NoFile
      THEN [calls |-> <<>>,
            response |-> Response(200, [model |-> model, response |-> llm_response])]
      ELSE IF remote.kind /= "response"
      THEN [calls |-> calls, response |-> Response(500, [error |-> Str(remote.kind)])]
      ELSE IF remote.status /= 200
      THEN [calls |-> calls,
            response |-> Response(remote.status, [error |-> Str("Murf TTS failed")])]
      ELSE IF ~Truthy(remote.audioFile)
      THEN [calls |-> calls,
            response |-> Response(500,
              [error |-> Str("Murf API did not return an audioFile URL.")])]
      ELSE [calls |-> calls,
            response |-> Response(200,
              [model |-> model, transcription |-> transcription,
               llm_response |-> truncated, audio_url |-> remote.audioFile,
               voiceId |-> voiceId, filename |-> FileName])]

AgentChatSpeech(session_id, n, ttsR) ==
  /\ last' = Call("agent_chat", [llm_response |-> TextOfLen(n), remote |-> ttsR],
                  agent_chat_speech(config, session_id, DefaultModel, DefaultVoice,
                                    Hello, TextOfLen(n), 2, ttsR))
  /\ UNCHANGED <<config, sessions, addCalls, req, reply, running, frame>>

MainLlmQuerySpeech(file, n, ttsR) ==
  /\ last' = Call("main_llm_query",
                  [file |-> file, llm_response |-> TextOfLen(n), remote |-> ttsR],
                  main_llm_query_speech(file, DefaultModel, DefaultVoice, Hello,
                                        TextOfLen(n), ttsR))
  /\ UNCHANGED <<config, sessions, addCalls, req, reply, running, frame>>

LegacyNext ==
  \/ \E n \in SpeechLengths, ttsR \in TTSRemotes :
       AgentChatSpeech(CHOOSE id \in SessionIds : TRUE, n, ttsR)
  \/ \E file \in {NoFile, "audio/webm"}, n \in SpeechLengths, ttsR \in TTSRemotes :
       MainLlmQuerySpeech(file, n, ttsR)

LegacySpec == Init /\ [][LegacyNext]_vars

\* ------------------------------------------- long answers in the chat
\* chat_with_session with LLM answers around the Murf limit: the same
\* handler step as ChatResume, the LLM remote drawn from long results

LongLLMRemotes ==
  { [kind |-> "result", text |-> TextOfLen(n), parts |-> <<>>, msg |-> None] :
      n \in {MURF_MAX_CHARS, MURF_MAX_CHARS + 1} }
  \cup { [kind |-> "result", text |-> None, parts |-> <<>>, msg |-> None] }

ChatResumeLong(r) ==
  /\ req[r].pc = "reading"
  /\ loop_idle
  /\ \E sttR \in LoopSTTRemotes, llmR \in LongLLMRemotes, ttsR \in LoopTTSRemotes :
       LET out == chat_process(sessions, config, req[r].session_id,
                               DefaultModel, DefaultVoice, sttR, llmR, ttsR)
       IN  /\ sessions' = out.sessions
           /\ addCalls' = [addCalls EXCEPT ![req[r].session_id] = @ + out.adds]
           /\ req' = [req EXCEPT ![r] =
                        [pc |-> "done", session_id |-> req[r].session_id,
                         calls |-> out.calls, response |-> out.response]]
  /\ UNCHANGED <<config, reply, running, frame, last>>

LongNext ==
  \/ \E r \in Sequential, ct \in ContentTypes :
       ChatStart(r, CHOOSE id \in SessionIds : TRUE, ct)
  \/ \E r \in Sequential : ChatResumeLong(r)
  \/ ClearSession(CHOOSE id \in SessionIds : TRUE)

LongSpec == Init /\ [][LongNext]_vars

\* ------------------------------------------------ vocabulary of the claims
\* what a stage's remote outcome amounts to, read off the logged remote call

SttSucceeded(remote) ==
  remote.kind = "completed" /\ remote.text /= None /\ strip(remote.text) /= <<>>

LlmText(remote) ==
  IF remote.text /= None /\ remote.text /= <<>>
  THEN strip(remote.text)
  ELSE strip(JoinLines(remote.parts))

LlmSucceeded(remote) == remote.kind = "result" /\ LlmText(remote) /= <<>>

TtsSucceeded(remote) ==
  remote.kind = "response" /\ remote.status = 200
    /\ remote.audioFile /= None /\ remote.audioFile /= <<>>

CallsTo(calls, gw) == {i \in 1..Len(calls) : calls[i].gw = gw}

SttFailedIn(calls) == \E i \in CallsTo(calls, "STT") : ~SttSucceeded(calls[i].remote)
SttOkIn(calls) == \E i \in CallsTo(calls, "STT") : SttSucceeded(calls[i].remote)
LlmFailedIn(calls) == \E i \in CallsTo(calls, "LLM") : ~LlmSucceeded(calls[i].remote)
LlmOkIn(calls) == \E i \in CallsTo(calls, "LLM") : LlmSucceeded(calls[i].remote)
TtsOkIn(calls) == \E i \in CallsTo(calls, "TTS") : TtsSucceeded(calls[i].remote)

TranscriptOf(calls) ==
  strip(calls[CHOOSE i \in CallsTo(calls, "STT") : TRUE].remote.text)
AnswerOf(calls) == LlmText(calls[CHOOSE i \in CallsTo(calls, "LLM") : TRUE].remote)
UrlOf(calls) == calls[CHOOSE i \in CallsTo(calls, "TTS") : TRUE].remote.audioFile

Turn(role, content) == [role |-> role, content |-> content]

\* request r returns in this step (the step from file.read() to the return)
Returns(r) == req[r].pc = "reading" /\ req'[r].pc = "done"

Done(r) == req[r].pc = "done"

\* the run went to the fallback branch: STT unconfigured, or the
\* transcription or the response stage failed
FallbackEntered(r) ==
  /\ Done(r)
  /\ \/ SttFailedIn(req[r].calls)
     \/ LlmFailedIn(req[r].calls)
     \/ (config.llm /\ ~config.stt /\ req[r].response.status \notin {400, 500})

\* ---------------------------------------------------------------- claims

\* C1: when transcription, response generation and speech synthesis all
\* succeed for a request on session s, the history of s afterwards is its
\* history before followed by exactly [user: transcript, assistant: response],
\* and the outcome carries the synthesized URL, is_fallback = false and
\* message_count = previous count + 2.
C1_SuccessAppendsUserThenAssistant ==
  [][\A r \in Requests :
       (Returns(r) /\ SttOkIn(req'[r].calls) /\ LlmOkIn(req'[r].calls)
          /\ TtsOkIn(req'[r].calls))
       => LET sid == req[r].session_id
              out == req'[r].response
          IN  /\ get_session_history(sessions', sid) =
                   get_session_history(sessions, sid)
                     \o << Turn("user", TranscriptOf(req'[r].calls)),
                           Turn("assistant", AnswerOf(req'[r].calls)) >>
              /\ out.status = 200
              /\ out.body.audio_url = UrlOf(req'[r].calls)
              /\ out.body.is_fallback = FALSE
              /\ out.body.message_count = get_message_count(sessions, sid) + 2
              /\ out.body.transcription = TranscriptOf(req'[r].calls)
              /\ out.body.llm_response = AnswerOf(req'[r].calls)]_vars

C1_Witness ==
  /\ Done("r1")
  /\ req["r1"].session_id = "s1"
  /\ TtsOkIn(req["r1"].calls)
  /\ req["r1"].response.status = 200
  /\ req["r1"].response.body.is_fallback = FALSE
  /\ req["r1"].response.body.audio_url = Url1
  /\ req["r1"].response.body.message_count = 2
  /\ "s1" \in DOMAIN sessions
  /\ sessions["s1"] = << Turn("user", Hello), Turn("assistant", HiThere) >>

\* C2: when the transcription stage fails (error status, empty transcript,
\* or an exception inside the gateway) the Session Store is left unchanged:
\* no turn is appended and an unseen session id is not created.
C2_SttFailureLeavesStore ==
  [][\A r \in Requests :
       (Returns(r) /\ SttFailedIn(req'[r].calls)) => sessions' = sessions]_vars

C2_Witness ==
  /\ Done("r1")
  /\ SttFailedIn(req["r1"].calls)
  /\ req["r1"].session_id \notin DOMAIN sessions
  /\ req["r1"].response.body.error_type = Str("STT_ERROR")

\* C3: when the LLM remote call fails, the outcome's error label is the kind
\* obtained by classifying the remote error text and the response text is the
\* fallback text of that kind (a "429" failure yields LLM_QUOTA_ERROR).
C3_LlmFailureIsClassified ==
  \A r \in Requests :
    Done(r) =>
      \A i \in CallsTo(req[r].calls, "LLM") :
        req[r].calls[i].remote.kind = "raise" =>
          LET kind == get_error_type(req[r].calls[i].remote.msg)
              body == req[r].response.body
          IN  /\ body.error_type = Str(kind)
              /\ (req[r].response.status = 503
                    => body.fallback_text = get_fallback_message(kind))
              /\ (req[r].response.status = 200
                    => body.llm_response = get_fallback_message(kind))

\* C4: if speech synthesis fails after a successful response stage, the
\* outcome has the full response text, no audio_url, tts_error with error kind
\* TTS_ERROR and is_fallback = false; no fallback-speech call is made and the
\* user and the assistant turn both remain in the history.
C4_TtsFailureDegradesToText ==
  [][\A r \in Requests :
       (Returns(r) /\ SttOkIn(req'[r].calls) /\ LlmOkIn(req'[r].calls)
          /\ ~TtsOkIn(req'[r].calls))
       => LET sid == req[r].session_id
              out == req'[r].response
              calls == req'[r].calls
          IN  /\ out.status = 200
              /\ out.body.llm_response = AnswerOf(calls)
              /\ out.body.audio_url = None
              /\ out.body.tts_error \notin {None, <<>>}
              /\ out.body.error_type = Str("TTS_ERROR")
              /\ out.body.is_fallback = FALSE
              /\ \A i \in CallsTo(calls, "TTS") :
                   calls[i].timeout /= FALLBACK_TTS_TIMEOUT
              /\ Cardinality(CallsTo(calls, "TTS")) <= 1
              /\ get_session_history(sessions', sid) =
                   get_session_history(sessions, sid)
                     \o << Turn("user", TranscriptOf(calls)),
                           Turn("assistant", AnswerOf(calls)) >>]_vars

C4_Witness ==
  /\ Done("r1")
  /\ LlmOkIn(req["r1"].calls)
  /\ CallsTo(req["r1"].calls, "TTS") /= {}
  /\ ~TtsOkIn(req["r1"].calls)
  /\ req["r1"].response.body.error_type = Str("TTS_ERROR")
  /\ req["r1"].response.body.audio_url = None
  /\ req["r1"].response.body.llm_response = HiThere

\* C5: if the LLM gateway is unconfigured, chat_with_session returns a
\* service-unavailable result without invoking the STT gateway or the TTS
\* gateway and without mutating the Session Store.
C5_LlmUnconfiguredFailsFast ==
  [][\A r \in Requests :
       (~config.llm /\ req'[r] /= req[r])
       => /\ req'[r].pc = "done"
          /\ req'[r].response.status = 503
          /\ req'[r].response.body.service_type = Str("LLM")
          /\ req'[r].calls = <<>>
          /\ sessions' = sessions]_vars

C5_Witness ==
  /\ ~config.llm
  /\ config.stt
  /\ config.tts
  /\ Done("r1")
  /\ req["r1"].response.status = 503
  /\ req["r1"].calls = <<>>

\* the text a fallback outcome delivers
FallbackTextOf(response) ==
  IF response.status = 200 THEN response.body.llm_response
  ELSE response.body.fallback_text

\* C6 as stated: every run that enters the fallback branch still attempts to
\* synthesize the fallback text under the short timeout tier (strictly shorter
\* than the normal tier); if that yields no URL the outcome carries no audio
\* and is marked service_unavailable = true.
C6_FallbackAlwaysSynthesizes ==
  \A r \in Requests :
    FallbackEntered(r) =>
      LET calls == req[r].calls
          out == req[r].response
      IN  /\ \E i \in CallsTo(calls, "TTS") :
               /\ calls[i].timeout = FALLBACK_TTS_TIMEOUT
               /\ calls[i].text = FallbackTextOf(out)
          /\ FALLBACK_TTS_TIMEOUT < TTS_TIMEOUT
          /\ (~TtsOkIn(calls) =>
                /\ out.status = 503
                /\ out.body.service_unavailable = TRUE
                /\ "audio_url" \notin DOMAIN out.body)

\* C6 amended: a run that enters the fallback branch makes exactly one
\* synthesis call, for the fallback text and under the short timeout tier,
\* when the TTS gateway is configured, and none when it is not; whenever no
\* URL is obtained the outcome carries no audio and service_unavailable = true.
C6_FallbackSynthesizesWhenConfigured ==
  \A r \in Requests :
    FallbackEntered(r) =>
      LET calls == req[r].calls
          out == req[r].response
      IN  /\ config.tts =>
               /\ Cardinality(CallsTo(calls, "TTS")) = 1
               /\ \A i \in CallsTo(calls, "TTS") :
                    /\ calls[i].timeout = FALLBACK_TTS_TIMEOUT
                    /\ calls[i].text = FallbackTextOf(out)
          /\ ~config.tts => CallsTo(calls, "TTS") = {}
          /\ FALLBACK_TTS_TIMEOUT < TTS_TIMEOUT
          /\ (~TtsOkIn(calls) =>
                /\ out.status = 503
                /\ out.body.service_unavailable = TRUE
                /\ "audio_url" \notin DOMAIN out.body)
          /\ (TtsOkIn(calls) =>
                /\ out.status = 200
                /\ out.body.audio_url = UrlOf(calls))

C6_Witness ==
  /\ FallbackEntered("r1")
  /\ config.tts
  /\ LlmFailedIn(req["r1"].calls)
  /\ CallsTo(req["r1"].calls, "TTS") /= {}
  /\ ~TtsOkIn(req["r1"].calls)
  /\ req["r1"].response.status = 503
  /\ req["r1"].response.body.service_unavailable = TRUE

PipelineOutcomeFields ==
  {"llm_response", "transcription", "audio_url", "is_fallback", "error_type",
   "message_count"}

\* C7 as stated: every outcome on the success, TTS-degraded, fallback with
\* audio and fallback without audio paths has every PipelineOutcome field
\* resolved: response text, transcript, audio_url, is_fallback, error kind and
\* message_count.
C7_EveryOutcomeFullyPopulated ==
  \A r \in Requests :
    (Done(r) /\ (req[r].response.status = 200 \/ FallbackEntered(r)))
      => PipelineOutcomeFields \subseteq DOMAIN req[r].response.body

\* C7 amended: every outcome returned with status 200 (success, TTS-degraded,
\* fallback with audio) has every PipelineOutcome field resolved; the fallback
\* outcome without audio (status 503) carries exactly error, error_type,
\* fallback_text and service_unavailable = true.
C7_OutcomePopulatedPerShape ==
  \A r \in Requests :
    Done(r) =>
      LET out == req[r].response
      IN  /\ out.status = 200 =>
               /\ PipelineOutcomeFields \subseteq DOMAIN out.body
               /\ out.body.llm_response \notin {None, <<>>}
               /\ out.body.is_fallback \in BOOLEAN
               /\ out.body.message_count \in 0..MaxTurns
               /\ out.body.is_fallback => out.body.transcription = None
               /\ ~out.body.is_fallback => out.body.transcription \notin {None, <<>>}
          /\ (out.status = 503 /\ FallbackEntered(r)) =>
               /\ DOMAIN out.body =
                    {"error", "error_type", "fallback_text", "service_unavailable"}
               /\ out.body.service_unavailable = TRUE
               /\ out.body.fallback_text \notin {None, <<>>}
               /\ out.body.error_type \notin {None, <<>>}

C7_Witness ==
  /\ Done("r1")
  /\ SttOkIn(req["r1"].calls)
  /\ LlmOkIn(req["r1"].calls)
  /\ TtsOkIn(req["r1"].calls)
  /\ req["r1"].response.status = 200
  /\ req["r1"].response.body.error_type = None
  /\ req["r1"].response.body.is_fallback = FALSE

\* C8: when the response stage fails, nothing is appended to the session
\* history for the failed attempt: the history after the request equals the
\* history before it.
C8_LlmFailureAppendsNothing ==
  [][\A r \in Requests :
       (Returns(r) /\ LlmFailedIn(req'[r].calls))
       => get_session_history(sessions', req[r].session_id) =
            get_session_history(sessions, req[r].session_id)]_vars

\* C9: for every session id, after any interleaving of Session Store
\* operations, get_message_count(id) is the number of add_message calls made
\* to that id since its last clear_session.
C9_CountIsAppendsSinceClear ==
  \A id \in SessionIds : get_message_count(sessions, id) = addCalls[id]

C9_Witness ==
  /\ addCalls["s1"] = 2
  /\ addCalls["s2"] = 1
  /\ reply.op = "clear"
  /\ reply.status = 200
  /\ get_message_count(sessions, "s1") = 2

\* C10: for every session id never appended to, or cleared and not appended
\* to since, get_session_history returns the empty sequence and
\* get_message_count returns 0, and the history endpoint answers normally.
C10_UnknownSessionReadsEmpty ==
  /\ \A id \in SessionIds :
       addCalls[id] = 0 =>
         /\ get_session_history(sessions, id) = <<>>
         /\ get_message_count(sessions, id) = 0
  /\ (reply.op = "history" /\ addCalls[reply.session_id] = 0) =>
       /\ reply.status = 200
       /\ reply.history = <<>>
       /\ reply.message_count = 0

C10_Witness ==
  /\ reply.op = "history"
  /\ reply.session_id = "s1"
  /\ addCalls["s1"] = 0
  /\ addCalls["s2"] > 0
  /\ reply.history = <<>>

\* the stored turns of a session, read the way get_session_history reads them
History(id) == get_session_history(sessions, id)

\* C11: the history of a session is its turns in the order of the
\* add_message calls that made them: an add_message call puts exactly its
\* own turn at the end and leaves every earlier turn where it was, also when
\* the same role and content are already there; reading the history
\* returns the stored turns as they are; and no other operation changes the
\* turns of a session except clear_session, which removes them all.
C11_HistoryKeepsCallOrder ==
  [][\A id \in SessionIds :
       /\ \A t \in StoreTurns :
            AddMessage(id, t.role, t.content) =>
              History(id)' = Append(History(id), t)
       /\ GetSessionHistory(id) =>
            /\ reply'.history = History(id)
            /\ History(id)' = History(id)
       /\ \/ History(id)' = History(id)
          \/ \E t \in StoreTurns : History(id)' = Append(History(id), t)
          \/ History(id)' = <<>> /\ reply'.op = "clear" /\ reply'.session_id = id
    ]_vars

\* the same turn appended twice is stored twice, after an earlier turn
C11_Witness ==
  /\ "s1" \in DOMAIN sessions
  /\ sessions["s1"] = <<Turn("assistant", HiThere), Turn("user", Hello),
                        Turn("user", Hello)>>
  /\ reply.op = "history" /\ reply.session_id = "s1"
  /\ reply.history = sessions["s1"]

\* C12: clear_session(id) answers true exactly when id is stored, which is
\* exactly when it has at least one turn, and then removes it: afterwards
\* its history is empty, its count is 0 and it is not stored. When id is not
\* stored it answers false and the store is unchanged; so a clear_session(id)
\* that directly follows a clear_session(id) answers false. The delete
\* endpoint turns true into 200 and false into 404.
C12_ClearReportsExistence ==
  [][\A id \in SessionIds :
       ClearSession(id) =>
         /\ reply'.status = 200 <=> id \in DOMAIN sessions
         /\ reply'.status = 200 <=> get_message_count(sessions, id) >= 1
         /\ reply'.status \in {200, 404}
         /\ History(id)' = <<>>
         /\ get_message_count(sessions', id) = 0
         /\ id \notin DOMAIN sessions'
         /\ id \notin DOMAIN sessions => sessions' = sessions
         /\ (reply.op = "clear" /\ reply.session_id = id /\ addCalls[id] = 0)
              => reply'.status = 404
    ]_vars

\* a session with two turns was cleared (200) while another session is stored
C12_Witness ==
  /\ reply.op = "clear" /\ reply.session_id = "s1" /\ reply.status = 200
  /\ "s1" \notin DOMAIN sessions
  /\ addCalls["s1"] = 0
  /\ "s2" \in DOMAIN sessions

RECURSIVE SumOver(_, _)
SumOver(f, ids) ==
  IF ids = {} THEN 0
  ELSE LET k == CHOOSE x \in ids : TRUE IN f[k] + SumOver(f, ids \ {k})

\* the ids that received an add_message call since their last clear_session
Existing == {id \in SessionIds : addCalls[id] > 0}

\* C13: in every reachable state get_session_stats reports as total_sessions
\* the number of sessions that exist (those added to since their last clear)
\* and as total_messages the sum of their turn counts; the average it reports
\* is total_messages / total_sessions when a session exists and the number 0,
\* computed without a division, when none does; the stats endpoint answers
\* 200 with these figures.
C13_StatsCountSessionsAndTurns ==
  LET stats == get_session_stats(sessions)
      average == stats.average_messages_per_session
  IN  /\ stats.total_sessions = Cardinality(Existing)
      /\ stats.total_messages = SumOver(addCalls, SessionIds)
      /\ stats.total_messages =
           SumOver([id \in SessionIds |-> get_message_count(sessions, id)],
                   SessionIds)
      /\ ~average.raised
      /\ Existing = {} => average = Zero
      /\ Existing /= {} =>
           /\ average.num = stats.total_messages
           /\ average.den = stats.total_sessions
      /\ reply.op = "stats" =>
           /\ reply.status = 200
           /\ ~reply.statistics.average_messages_per_session.raised
           /\ reply.statistics.total_sessions = Cardinality(reply.active_sessions)
           /\ reply.active_sessions = {} =>
                reply.statistics.average_messages_per_session = Zero

\* the stats endpoint answered for the empty store after a session was
\* cleared, and the store has since been added to
C13_Witness ==
  /\ reply.op = "stats"
  /\ reply.statistics.total_sessions = 0
  /\ reply.statistics.average_messages_per_session = Zero
  /\ get_session_stats(sessions).total_sessions = 2
  /\ get_session_stats(sessions).total_messages = 3

\* C14: an add_message or a clear_session on one session id leaves every
\* other session id as it was: same history, same count, stored or not
\* stored as before, whatever calls came earlier.
C14_OtherSessionsUntouched ==
  [][\A id \in SessionIds :
       (\/ \E t \in StoreTurns : AddMessage(id, t.role, t.content)
        \/ ClearSession(id))
       => \A other \in SessionIds \ {id} :
            /\ History(other)' = History(other)
            /\ get_message_count(sessions', other) = get_message_count(sessions, other)
            /\ other \in DOMAIN sessions' <=> other \in DOMAIN sessions
    ]_vars

\* s1 was cleared after s2 had received two turns, which are still there
C14_Witness ==
  /\ reply.op = "clear" /\ reply.session_id = "s1" /\ reply.status = 200
  /\ "s1" \notin DOMAIN sessions
  /\ "s2" \in DOMAIN sessions
  /\ sessions["s2"] = <<Turn("user", Yo), Turn("assistant", HiThere)>>
  /\ addCalls["s2"] = 2

\* request r is inside one of its gateway calls
InGatewayCall(r) == req[r].pc \in {"stt", "llm", "tts", "fallback_tts"}

\* C15: when chat requests for the same session id are in flight together,
\* their appends are serialized. No turn is lost: every step leaves the
\* history of every session as it was, or with one turn added at its end,
\* or cleared by a delete. And a request's two turns stay together: from
\* the moment a request has appended its user turn until it appends its
\* assistant turn, its user turn is the last turn of the history, and the
\* assistant turn is then appended directly behind it.
C15_RacingAppendsSerialized ==
  /\ [](\A r \in Requests :
          LET h == History(req[r].session_id)
              i == frame[r].user_index
          IN  /\ req[r].pc = "llm" =>
                   /\ Len(h) = i
                   /\ h[i] = Turn("user", frame[r].user_message)
              /\ req[r].pc = "tts" =>
                   /\ Len(h) = i + 1
                   /\ h[i] = Turn("user", frame[r].user_message)
                   /\ h[i + 1] = Turn("assistant", frame[r].llm_response))
  /\ [][/\ \A id \in SessionIds :
             \/ History(id)' = History(id)
             \/ \E t \in [role : Roles, content : {Hello, HiThere}] :
                  History(id)' = Append(History(id), t)
             \/ History(id)' = <<>> /\ reply'.op = "clear" /\ reply'.session_id = id
        /\ \A r \in Requests :
             (req[r].pc = "llm" /\ req'[r].pc \in {"tts", "done"}
                /\ addCalls'[req[r].session_id] = addCalls[req[r].session_id] + 1)
             => /\ Len(History(req[r].session_id)) = frame[r].user_index
                /\ \E t \in [role : {"assistant"}, content : {HiThere}] :
                     History(req[r].session_id)' =
                       Append(History(req[r].session_id), t)
     ]_vars

\* r1 has appended its user turn to s1 and is inside the response call
\* while r2, for the same session, is suspended in file.read()
C15_Witness ==
  /\ req["r1"].pc = "llm" /\ req["r1"].session_id = "s1"
  /\ req["r2"].pc = "reading" /\ req["r2"].session_id = "s1"
  /\ History("s1") = <<Turn("user", Hello)>>

\* C16: a gateway call that is slow for one request stalls no request of
\* another session: while a request is inside an STT, LLM or TTS call, a
\* request for a different session can be started, and one that has been
\* started can go on from its file.read().
C16_SlowCallStallsNobody ==
  \A r1 \in Requests : \A r2 \in Requests \ {r1} :
    InGatewayCall(r1) =>
      /\ (req[r2].pc = "reading" /\ req[r2].session_id /= req[r1].session_id)
           => ENABLED ResumeAfterRead(r2)
      /\ req[r2].pc \in {"idle", "done"} =>
           \A id \in SessionIds \ {req[r1].session_id} :
             get_message_count(sessions, id) + 2 <= MaxTurns
               => ENABLED ChatStart(r2, id, "audio/webm")

\* what the caller of chat_with_session can receive: a normal or degraded
\* or fallback outcome (200), the text-only fallback or the unconfigured
\* LLM report (503), or an HTTPException turned into its status (400, 500)
ResponseGiven(response) ==
  /\ response.status \in {200, 400, 500, 503}
  /\ \/ /\ response.status = 200
        /\ {"session_id", "llm_response", "audio_url", "message_count"}
             \subseteq DOMAIN response.body
        /\ Truthy(response.body.llm_response)
     \/ /\ response.status = 503
        /\ "error" \in DOMAIN response.body
        /\ Truthy(response.body.error)
     \/ /\ response.status \in {400, 500}
        /\ DOMAIN response.body = {"detail"}
        /\ Truthy(response.body.detail)

\* C17: whatever the gateways do (succeed, return a failure value, raise,
\* or be unconfigured), every chat_with_session request that has been
\* started comes to its end, and a request at its end has given its caller
\* a response: an outcome, or a terminal error status. No run ends with an
\* exception that left the handler or with nothing returned.
C17_EveryRequestGetsAResponse ==
  /\ [](\A r \in Requests : Done(r) => ResponseGiven(req[r].response))
  /\ \A r \in Requests :
       (req[r].pc = "reading") ~> (Done(r) /\ ResponseGiven(req[r].response))

\* a run in which the response call raised after the user turn was stored,
\* and speech synthesis is not configured, has ended with the 503 fallback
C17_Witness ==
  /\ Done("r1")
  /\ ~config.tts
  /\ \E i \in CallsTo(req["r1"].calls, "LLM") : req["r1"].calls[i].remote.kind = "raise"
  /\ req["r1"].response.status = 503
  /\ ResponseGiven(req["r1"].response)

\* C18: every remote call a request makes (STT, LLM, primary TTS, fallback
\* TTS) is issued with a timeout, and a request one of whose calls timed
\* out reports a failure of the network class.
C18_EveryCallTimedAndTimeoutIsNetwork ==
  \A r \in Requests :
    \A i \in DOMAIN req[r].calls :
      /\ req[r].calls[i].timeout > 0
      /\ (Done(r) /\ req[r].calls[i].remote.kind = "Timeout"
            /\ "error_type" \in DOMAIN req[r].response.body)
           => req[r].response.body.error_type = Str("LLM_NETWORK_ERROR")

\* C19: in one run of chat_with_session each stage is attempted at most
\* once: at most one STT call, at most one LLM call and at most one speech
\* synthesis call, be it generate_speech or generate_fallback_speech; a
\* stage that failed is not called again.
C19_EachStageAtMostOnce ==
  \A r \in Requests :
    /\ Cardinality(CallsTo(req[r].calls, "STT")) <= 1
    /\ Cardinality(CallsTo(req[r].calls, "LLM")) <= 1
    /\ Cardinality(CallsTo(req[r].calls, "TTS")) <= 1
    /\ Len(req[r].calls) <= 3

\* a run whose three stages were each called once, the last one failing
C19_Witness ==
  /\ Done("r1")
  /\ Len(req["r1"].calls) = 3
  /\ SttOkIn(req["r1"].calls) /\ LlmOkIn(req["r1"].calls)
  /\ ~TtsOkIn(req["r1"].calls)
  /\ req["r1"].response.status = 200
  /\ req["r1"].response.body.audio_url = None

\* C20: a request whose declared content type is not in the audio
\* allow-list is rejected at once with the client-input status 400, which
\* no remote or internal failure produces, and none of its audio reaches
\* the STT gateway. (Stated for a configured LLM gateway: the unconfigured
\* LLM report comes before the content-type check.)
C20_BadContentTypeIsClientError ==
  [][\A r \in Requests, id \in SessionIds :
       \A ct \in ContentTypes \ ALLOWED_AUDIO_TYPES :
         (config.llm /\ ChatStart(r, id, ct)) =>
           /\ req'[r].pc = "done"
           /\ req'[r].calls = <<>>
           /\ req'[r].response.status = 400
    ]_vars

\* C21: a request whose temperature lies outside [0, 2] (0..20 tenths) is
\* rejected as a client-input error (a 4xx status) before the LLM remote
\* call: no LLM call is made for it, and no LLM call ever carries a
\* temperature outside the range. (The status is stated for a request
\* that is served otherwise: LLM configured, a non-blank text given.)
C21_OutOfRangeTemperatureRejected ==
  last.op = "llm_query" =>
    /\ last.args.temperature \notin 0..20 =>
         /\ CallsTo(last.result.calls, "LLM") = {}
         /\ (config.llm /\ last.args.file = NoFile /\ Truthy(last.args.text)
               /\ Truthy(strip(last.args.text)))
              => last.result.response.status \in {400, 422}
    /\ \A i \in CallsTo(last.result.calls, "LLM") :
         last.result.calls[i].temperature \in 0..20

\* a and b are the same letter up to case, or the same character
SameLetter(a, b) ==
  \/ a = b
  \/ \E k \in DOMAIN UpperLetters : {a, b} = {UpperLetters[k], LowerLetters[k]}

\* the word w occurs in the text, whatever the case of either
HasWord(text, w) ==
  \E i \in 1..Len(text) :
    /\ i + Len(w) - 1 <= Len(text)
    /\ \A j \in 1..Len(w) : SameLetter(text[i + j - 1], w[j])

\* C22: get_error_type gives every message exactly one kind, by
\* case-insensitive substring match in priority order: "quota" or "429"
\* gives quota; else "api key" or "authentication" gives auth; else
\* "network", "connection" or "timeout" gives network; else general.
C22_ErrorTypeByPriority ==
  last.op = "get_error_type" =>
    LET m == last.args
        quota == HasWord(m, MsgQuota) \/ HasWord(m, Msg429)
        auth == HasWord(m, MsgApiKey) \/ HasWord(m, MsgAuthentication)
        network == HasWord(m, MsgNetwork) \/ HasWord(m, MsgConnection)
                     \/ HasWord(m, MsgTimeout)
    IN  /\ last.result \in {"LLM_QUOTA_ERROR", "LLM_AUTH_ERROR",
                            "LLM_NETWORK_ERROR", "LLM_GENERAL_ERROR"}
        /\ last.result = "LLM_QUOTA_ERROR" <=> quota
        /\ last.result = "LLM_AUTH_ERROR" <=> (~quota /\ auth)
        /\ last.result = "LLM_NETWORK_ERROR" <=> (~quota /\ ~auth /\ network)
        /\ last.result = "LLM_GENERAL_ERROR" <=> (~quota /\ ~auth /\ ~network)

\* a message that matches the auth rule (in capitals) and the quota rule
\* was given the quota kind
C22_Witness ==
  /\ last.op = "get_error_type"
  /\ last.args = MsgAuthentication \o <<" ">> \o Msg429
  /\ last.result = "LLM_QUOTA_ERROR"

\* the four canned texts, as the claim names them
LimitReachedText ==
  Str("I've reached my daily conversation limit. Please try again tomorrow, or consider upgrading for unlimited conversations!")
AuthenticationIssueText ==
  Str("I'm having authentication issues right now. Please try again in a few moments.")
ConnectivityText ==
  Str("I'm having trouble connecting to my AI brain right now. Please try again in a moment!")
TechnicalDifficultyText ==
  Str("I'm experiencing some technical difficulties right now. Please try asking your question again!")

\* C23: the text get_fallback_message returns depends on the kind alone,
\* in every state and configuration: quota gives the limit-reached text,
\* auth the authentication-issue text, network the connectivity text,
\* general the technical-difficulty text, the four texts differ from one
\* another, and every label that is none of the four kinds gives the
\* general text.
C23_FallbackTextByKind ==
  /\ Cardinality({LimitReachedText, AuthenticationIssueText, ConnectivityText,
                  TechnicalDifficultyText}) = 4
  /\ last.op = "get_fallback_message" =>
       /\ last.args = "LLM_QUOTA_ERROR" => last.result = LimitReachedText
       /\ last.args = "LLM_AUTH_ERROR" => last.result = AuthenticationIssueText
       /\ last.args = "LLM_NETWORK_ERROR" => last.result = ConnectivityText
       /\ last.args \notin {"LLM_QUOTA_ERROR", "LLM_AUTH_ERROR", "LLM_NETWORK_ERROR"}
            => last.result = TechnicalDifficultyText

\* a label that is not one of the four kinds was given the general text,
\* with no gateway configured
C23_Witness ==
  /\ last.op = "get_fallback_message"
  /\ last.args = "STT_ERROR"
  /\ last.result = TechnicalDifficultyText
  /\ ~config.llm /\ ~config.stt /\ ~config.tts

\* the text that generate_speech put into its remote call
SentText(result) == result.calls[1].text

\* C24: generate_speech, when configured, sends the text unchanged if its
\* length is at most the TTS character limit; if it is longer it sends
\* exactly the first (limit - 20) characters followed by the truncation
\* marker. Truncation is no failure: the call is made all the same and a
\* successful remote answer gives its URL.
C24_TruncatesToLimitMinus20 ==
  (last.op = "generate_speech" /\ config.tts) =>
    LET text == last.args.text
        sent == SentText(last.result)
        keep == MURF_MAX_CHARS - 20
    IN  /\ ~last.result.raised
        /\ Len(last.result.calls) = 1
        /\ Len(text) <= MURF_MAX_CHARS => sent = text
        /\ Len(text) > MURF_MAX_CHARS =>
             /\ Len(sent) = keep + Len(TruncationMarker)
             /\ \A i \in 1..keep : sent[i] = text[i]
             /\ \A j \in 1..Len(TruncationMarker) : sent[keep + j] = TruncationMarker[j]
             /\ Len(sent) <= MURF_MAX_CHARS
        /\ TtsSucceeded(last.args.remote) => last.result.value = last.args.remote.audioFile

\* a text one character over the limit was sent truncated and synthesized
C24_Witness ==
  /\ last.op = "generate_speech" /\ config.tts
  /\ Len(last.args.text) = MURF_MAX_CHARS + 1
  /\ Len(SentText(last.result)) = MURF_MAX_CHARS - 5
  /\ last.result.value = Url1

GatewayMethods ==
  {"transcribe_audio", "generate_response", "generate_conversational_response",
   "generate_speech", "generate_fallback_speech"}

\* the gateway whose method the last call was is configured
Configured(op) ==
  CASE op = "transcribe_audio" -> config.stt
    [] op \in {"generate_response", "generate_conversational_response"} -> config.llm
    [] OTHER -> config.tts

\* C25: no gateway method raises to its caller, whatever the configuration
\* and whatever the remote call does; each returns its result or a
\* failure value.
C25_GatewaysNeverRaise ==
  last.op \in GatewayMethods => ~last.result.raised

\* C25, as the code has it: a configured gateway method never raises,
\* whatever the remote call does (also when it raises or times out): it
\* returns its result or the failure value None, after exactly one remote
\* call. An unconfigured transcribe_audio, generate_response,
\* generate_conversational_response or generate_speech raises, and an
\* unconfigured generate_fallback_speech returns None; neither makes a
\* remote call.
C25_GatewaysRaiseOnlyUnconfigured ==
  last.op \in GatewayMethods =>
    /\ last.result.raised <=>
         (~Configured(last.op) /\ last.op /= "generate_fallback_speech")
    /\ Configured(last.op) =>
         /\ Len(last.result.calls) = 1
         /\ last.result.value = None \/ Truthy(last.result.value)
    /\ ~Configured(last.op) =>
         /\ last.result.calls = <<>>
         /\ last.result.value = None

\* the remote transcription call raised and transcribe_audio returned None
C25_Witness ==
  /\ last.op = "transcribe_audio"
  /\ config.stt
  /\ last.args.kind = "raise"
  /\ ~last.result.raised
  /\ last.result.value = None

CannedTexts ==
  {LimitReachedText, AuthenticationIssueText, ConnectivityText,
   TechnicalDifficultyText, STT_FALLBACK_MESSAGE}

\* the response delivers canned fallback text in one of its text fields
DeliversCannedText(response) ==
  /\ response.status /= 0
  /\ \E k \in DOMAIN response.body \cap {"llm_response", "error", "fallback_text"} :
       response.body[k] \in CannedTexts

\* the response says of itself that it is a fallback
FlaggedAsFallback(response) ==
  \/ "is_fallback" \in DOMAIN response.body /\ response.body.is_fallback = TRUE
  \/ "service_unavailable" \in DOMAIN response.body
       /\ response.body.service_unavailable = TRUE

\* C26: whenever the text delivered to the caller is canned fallback text
\* and not a genuine pipeline result, the response carries
\* is_fallback = true or service_unavailable = true; in the one-shot query
\* pipeline as in the session chat pipeline.
C26_CannedTextIsFlagged ==
  (last.op = "llm_query" /\ DeliversCannedText(last.result.response))
    => FlaggedAsFallback(last.result.response)

\* the STT remote call completed with no text, empty text or blanks only
BlankTranscript(remote) ==
  /\ remote.kind = "completed"
  /\ remote.text = None \/ \A i \in DOMAIN remote.text : IsSpace(remote.text[i])

\* the remote outcome of the speech call of a run, if it made one
TtsRemoteOf(calls) ==
  IF CallsTo(calls, "TTS") /= {}
  THEN calls[CHOOSE i \in CallsTo(calls, "TTS") : TRUE].remote
  ELSE CHOOSE x \in TTSRemotes : TRUE

TransportFailure == [kind |-> "raise", text |-> None]

\* C27: an empty or whitespace-only transcript from the STT remote call is
\* treated exactly like a transport failure. transcribe_audio returns the
\* failure value for it, and the run of chat_with_session takes the
\* STT_ERROR fallback branch: no turn is appended, the LLM is not called,
\* and the response is the one the same run gives when the STT call raises.
C27_BlankTranscriptIsFailure ==
  [][\A r \in Requests :
       (Returns(r) /\ \E i \in CallsTo(req'[r].calls, "STT") :
                        BlankTranscript(req'[r].calls[i].remote))
       => LET calls == req'[r].calls
              sttR == calls[CHOOSE i \in CallsTo(calls, "STT") : TRUE].remote
              failed == chat_process(sessions, config, req[r].session_id,
                          DefaultModel, DefaultVoice, TransportFailure,
                          CHOOSE x \in LLMRemotes : TRUE, TtsRemoteOf(calls))
          IN  /\ transcribe_audio(config, sttR).value = None
              /\ ~transcribe_audio(config, sttR).raised
              /\ sessions' = sessions
              /\ addCalls' = addCalls
              /\ CallsTo(calls, "LLM") = {}
              /\ req'[r].response.body.error_type = Str("STT_ERROR")
              /\ FallbackTextOf(req'[r].response) = STT_FALLBACK_MESSAGE
              /\ req'[r].response = failed.response
              /\ failed.sessions = sessions
    ]_vars

\* a run whose transcript was a single blank ended in the STT_ERROR
\* fallback with fallback audio, and its session was not created
C27_Witness ==
  /\ Done("r1")
  /\ \E i \in CallsTo(req["r1"].calls, "STT") :
       /\ req["r1"].calls[i].remote.kind = "completed"
       /\ req["r1"].calls[i].remote.text = <<" ">>
  /\ req["r1"].response.status = 200
  /\ req["r1"].response.body.error_type = Str("STT_ERROR")
  /\ req["r1"].response.body.is_fallback = TRUE
  /\ req["r1"].session_id \notin DOMAIN sessions

\* a Python string that is None, empty or blanks only
IsBlank(s) == s = None \/ \A i \in DOMAIN s : IsSpace(s[i])

\* the LLM remote call returned normally and what can be read out of its
\* result is empty or blanks only
BlankAnswer(remote) ==
  /\ remote.kind = "result"
  /\ IsBlank(remote.text)
  /\ Truthy(remote.text) \/ IsBlank(JoinLines(remote.parts))

\* C28: an empty or whitespace-only response text from the LLM remote call
\* is a failure of kind general and never a valid answer. The run that got
\* it ends in the fallback branch with LLM_GENERAL_ERROR and the general
\* canned text, and appends the user turn only; in every state no assistant
\* turn of any session has blank content and no response carries a blank
\* llm_response.
C28_BlankAnswerIsGeneralFailure ==
  /\ [](/\ \A id \in DOMAIN sessions : \A i \in DOMAIN sessions[id] :
             sessions[id][i].role = "assistant"
               => ~IsBlank(sessions[id][i].content)
        /\ \A r \in Requests :
             (Done(r) /\ "llm_response" \in DOMAIN req[r].response.body)
               => ~IsBlank(req[r].response.body.llm_response))
  /\ [][\A r \in Requests :
          (Returns(r) /\ \E i \in CallsTo(req'[r].calls, "LLM") :
                           BlankAnswer(req'[r].calls[i].remote))
          => LET id == req[r].session_id
                 old == get_session_history(sessions, id)
             IN  /\ req'[r].response.body.error_type = Str("LLM_GENERAL_ERROR")
                 /\ FallbackTextOf(req'[r].response)
                      = get_fallback_message("LLM_GENERAL_ERROR")
                 /\ req'[r].response.status = 200
                      => req'[r].response.body.is_fallback = TRUE
                 /\ Len(sessions'[id]) = Len(old) + 1
                 /\ sessions'[id][Len(old) + 1].role = "user"
       ]_vars

\* a run whose LLM call returned a single blank ended in the general
\* fallback, with the user turn as the last turn of its session
C28_Witness ==
  /\ Done("r1")
  /\ \E i \in CallsTo(req["r1"].calls, "LLM") :
       /\ req["r1"].calls[i].remote.kind = "result"
       /\ req["r1"].calls[i].remote.text = <<" ">>
  /\ req["r1"].response.status = 200
  /\ req["r1"].response.body.error_type = Str("LLM_GENERAL_ERROR")
  /\ req["r1"].session_id \in DOMAIN sessions
  /\ sessions[req["r1"].session_id][Len(sessions[req["r1"].session_id])].role = "user"

\* C29: a run of chat_with_session whose transcription fails, whatever the
\* cause, or that finds the STT gateway unconfigured, goes to the fallback
\* branch with kind STT_ERROR and the one fixed could-not-understand-audio
\* message: its response is the fallback response for that message and
\* depends on nothing but the outcome of the fallback synthesis. When STT
\* is unconfigured no STT remote call is made, and in both cases the LLM
\* gateway is not invoked and the store is left as it was.
C29_SttFailureOrUnconfiguredFallsBack ==
  [][\A r \in Requests :
       (Returns(r) /\ (~config.stt \/ SttFailedIn(req'[r].calls)))
       => LET calls == req'[r].calls
              fb == _generate_fallback_response(sessions, config,
                      req[r].session_id, STT_FALLBACK_MESSAGE, DefaultVoice,
                      "STT_ERROR", TtsRemoteOf(calls))
          IN  /\ req'[r].response = fb.response
              /\ req'[r].response.status \in {200, 503}
              /\ req'[r].response.body.error_type = Str("STT_ERROR")
              /\ FallbackTextOf(req'[r].response) = STT_FALLBACK_MESSAGE
              /\ ~config.stt => CallsTo(calls, "STT") = {}
              /\ CallsTo(calls, "LLM") = {}
              /\ sessions' = sessions
    ]_vars

\* a run with STT unconfigured and TTS configured ended in the STT_ERROR
\* fallback with fallback audio, having called the TTS gateway only
C29_Witness ==
  /\ Done("r1")
  /\ ~config.stt
  /\ req["r1"].response.status = 200
  /\ req["r1"].response.body.error_type = Str("STT_ERROR")
  /\ req["r1"].response.body.llm_response = STT_FALLBACK_MESSAGE
  /\ CallsTo(req["r1"].calls, "STT") = {}
  /\ CallsTo(req["r1"].calls, "TTS") /= {}

\* the positions of the handler by stage: START is the validation done in
\* the step that accepts the request, TRANSCRIBING runs from file.read() to
\* the return of transcribe_audio, RESPONDING is the LLM call, SYNTHESIZING
\* either speech call
StageOf(pc) ==
  CASE pc \in {"reading", "stt"} -> "TRANSCRIBING"
    [] pc = "llm" -> "RESPONDING"
    [] pc \in {"tts", "fallback_tts"} -> "SYNTHESIZING"
    [] pc = "done" -> "DONE"
    [] OTHER -> "START"

StageRank(stage) ==
  CASE stage = "START" -> 0
    [] stage = "TRANSCRIBING" -> 1
    [] stage = "RESPONDING" -> 2
    [] stage = "SYNTHESIZING" -> 3
    [] OTHER -> 4

IsPrefix(s, t) == Len(s) <= Len(t) /\ \A i \in DOMAIN s : t[i] = s[i]

\* the gateway calls a step added to the log of request r
NewCalls(r) ==
  SubSeq(req'[r].calls, Len(req[r].calls) + 1, Len(req'[r].calls))

\* C30: in every run of chat_with_session the stages advance strictly
\* forward START, TRANSCRIBING, RESPONDING, SYNTHESIZING, DONE. A run in
\* flight never moves to an earlier stage and only adds to its call log;
\* the LLM call is entered only from the transcription with a non-empty
\* transcript in hand, the primary synthesis only from the LLM call with a
\* non-empty response in hand, the fallback synthesis only from
\* TRANSCRIBING (STT unconfigured or failed) or RESPONDING (LLM failed);
\* each step logs only the call of the stage it leaves, and a run that is
\* DONE logs no further call: its log changes only when the next request
\* starts with an empty one.
C30_StagesOnlyForward ==
  [][\A r \in Requests :
       LET old == req[r]
           new == req'[r]
       IN  /\ (old.pc \notin {"idle", "done"} /\ new /= old)
                => /\ StageRank(StageOf(new.pc)) >= StageRank(StageOf(old.pc))
                   /\ new.pc /= old.pc
                   /\ new.pc /= "reading"
                   /\ IsPrefix(old.calls, new.calls)
                   /\ Len(new.calls) <= Len(old.calls) + 1
                   /\ \A i \in DOMAIN NewCalls(r) :
                        NewCalls(r)[i].gw =
                          (CASE old.pc = "stt" -> "STT"
                             [] old.pc = "llm" -> "LLM"
                             [] old.pc \in {"tts", "fallback_tts"} -> "TTS"
                             [] OTHER -> "none")
           /\ (new.pc = "stt" /\ old.pc /= "stt")
                => old.pc = "reading" /\ config.stt
           /\ (new.pc = "llm" /\ old.pc /= "llm")
                => /\ old.pc = "stt"
                   /\ SttOkIn(new.calls)
                   /\ Truthy(frame'[r].user_message)
                   /\ frame'[r].user_message = TranscriptOf(new.calls)
           /\ (new.pc = "tts" /\ old.pc /= "tts")
                => /\ old.pc = "llm"
                   /\ LlmOkIn(new.calls)
                   /\ Truthy(frame'[r].llm_response)
                   /\ frame'[r].llm_response = AnswerOf(new.calls)
           /\ (new.pc = "fallback_tts" /\ old.pc /= "fallback_tts")
                => \/ old.pc = "reading" /\ ~config.stt
                   \/ old.pc = "stt" /\ SttFailedIn(new.calls)
                   \/ old.pc = "llm" /\ LlmFailedIn(new.calls)
           /\ (old.pc = "done" /\ new /= old)
                => new.pc \in {"reading", "done"} /\ new.calls = <<>>
    ]_vars

\* a run went through all four stages: its log holds the STT call, the LLM
\* call and the primary synthesis call in this order, and it answered with
\* audio and no fallback
C30_Witness ==
  /\ Done("r1")
  /\ Len(req["r1"].calls) = 3
  /\ req["r1"].calls[1].gw = "STT"
  /\ req["r1"].calls[2].gw = "LLM"
  /\ req["r1"].calls[3].gw = "TTS"
  /\ req["r1"].calls[3].timeout = TTS_TIMEOUT
  /\ req["r1"].response.status = 200
  /\ req["r1"].response.body.is_fallback = FALSE
  /\ Truthy(req["r1"].response.body.audio_url)
  /\ running = "none"

\* one turn as a line of the role-tagged transcript
TaggedLine(turn) ==
  (IF turn.role = "user" THEN Str("User: ") ELSE Str("Assistant: "))
    \o turn.content \o <<"\n">>

RECURSIVE TaggedTranscript(_)
TaggedTranscript(turns) ==
  IF turns = <<>> THEN <<>>
  ELSE TaggedLine(Head(turns)) \o TaggedTranscript(Tail(turns))

\* C31: the LLM call of a run of chat_with_session gets the complete
\* history of the session in insertion order, ending with the user turn
\* that holds the transcript of this request: its prompt is the fixed
\* system instruction, then one role-tagged line per turn in that order,
\* then the open "Assistant:" cue; and that history is the front of the
\* stored history when the run returns.
C31_PromptIsWholeHistory ==
  [][\A r \in Requests :
       Returns(r) =>
         \A i \in CallsTo(req'[r].calls, "LLM") :
           LET id == req[r].session_id
               H == get_session_history(sessions, id)
                      \o <<Turn("user", TranscriptOf(req'[r].calls))>>
               prompt == req'[r].calls[i].text
           IN  /\ prompt = SystemInstruction \o TaggedTranscript(H)
                             \o Str("Assistant:")
               /\ prompt[Len(prompt)] = "Assistant:"
               /\ IsPrefix(H, sessions'[id])
               /\ Len(sessions'[id]) <= Len(H) + 1
    ]_vars

\* a run on a session that already held a turn called the LLM and stored
\* its answer: the prompt carried both user turns
C31_Witness ==
  /\ Done("r1")
  /\ LlmOkIn(req["r1"].calls)
  /\ req["r1"].session_id \in DOMAIN sessions
  /\ Len(sessions[req["r1"].session_id]) = 3
  /\ \E i \in CallsTo(req["r1"].calls, "LLM") :
       req["r1"].calls[i].text =
         SystemInstruction
           \o TaggedTranscript(SubSeq(sessions[req["r1"].session_id], 1, 2))
           \o Str("Assistant:")

\* C32: in the one-shot query pipeline a failure of the transcription stage
\* or of the response stage enters the fallback branch: with speech
\* synthesis configured, the request makes one synthesis call for a canned
\* fallback text with the short timeout before its outcome is returned.
C32_QueryFailureAttemptsFallbackSpeech ==
  (/\ last.op = "llm_query"
   /\ tts_is_configured(config)
   /\ SttFailedIn(last.result.calls) \/ LlmFailedIn(last.result.calls))
    => \E i \in CallsTo(last.result.calls, "TTS") :
         /\ last.result.calls[i].timeout = FALLBACK_TTS_TIMEOUT
         /\ last.result.calls[i].text \in CannedTexts

\* the stored sessions that hold at least one turn
WithTurns(S) == {id \in DOMAIN S : Len(S[id]) >= 1}

\* C33: in every reachable state of the Session Store every stored session
\* holds at least one turn: add_message stores a session together with its
\* first turn, clear_session removes the session and not only its turns,
\* and a read stores nothing. So total_sessions, in the store and in every
\* answer of the stats endpoint, counts only sessions that have turns.
C33_NoStoredSessionIsEmpty ==
  /\ \A id \in DOMAIN sessions : Len(sessions[id]) >= 1
  /\ get_session_stats(sessions).total_sessions = Cardinality(WithTurns(sessions))
  /\ get_active_sessions(sessions) = WithTurns(sessions)
  /\ reply.op = "stats" =>
       reply.statistics.total_sessions <= reply.statistics.total_messages

\* a session that held turns was cleared and is gone from the store, a
\* read of it has since returned the empty history without storing it, and
\* the other session is still stored
C33_Witness ==
  /\ reply.op = "history"
  /\ reply.message_count = 0
  /\ reply.history = <<>>
  /\ addCalls[reply.session_id] = 0
  /\ reply.session_id \notin DOMAIN sessions
  /\ DOMAIN sessions /= {}
  /\ get_session_stats(sessions).total_sessions = 1

\* C34: after any sequence of chat_with_session requests and session
\* deletes no session history holds two consecutive user turns: the roles
\* alternate user, assistant, user, assistant from the first turn on.
C34_RolesAlternate ==
  \A id \in DOMAIN sessions :
    /\ \A i \in 1..(Len(sessions[id]) - 1) :
         ~(sessions[id][i].role = "user" /\ sessions[id][i + 1].role = "user")
    /\ \A i \in DOMAIN sessions[id] :
         sessions[id][i].role = (IF i % 2 = 1 THEN "user" ELSE "assistant")

\* C35: under any interleaving of concurrent chat_with_session requests
\* and clear_session calls every non-empty history starts with a user turn
\* and every assistant turn stands right behind a user turn, the one of its
\* own request: the step that appends an assistant turn finds the user
\* turn of the same request as the last turn of the session, where that
\* request put it. A delete therefore never falls between the two appends
\* of a request and never leaves a history that begins with an assistant
\* turn.
C35_AssistantFollowsOwnUserTurn ==
  /\ [](\A id \in DOMAIN sessions :
          /\ sessions[id] /= <<>> => sessions[id][1].role = "user"
          /\ \A i \in DOMAIN sessions[id] :
               sessions[id][i].role = "assistant"
                 => i > 1 /\ sessions[id][i - 1].role = "user")
  /\ [][\A r \in Requests :
          (req[r].pc = "llm" /\ req'[r].pc /= "llm" /\ sessions' /= sessions)
          => LET id == req[r].session_id
                 n == Len(History(id))
             IN  /\ n >= 1
                 /\ frame[r].user_index = n
                 /\ sessions[id][n] = Turn("user", frame[r].user_message)
                 /\ sessions'[id] =
                      Append(sessions[id], Turn("assistant", AnswerOf(req'[r].calls)))
       ]_vars

\* a session that a finished request had written both turns to was
\* deleted while another request for it is suspended in file.read()
C35_Witness ==
  /\ reply.op = "clear" /\ reply.status = 200 /\ reply.session_id = "s1"
  /\ "s1" \notin DOMAIN sessions
  /\ req["r1"].pc = "reading" /\ req["r1"].session_id = "s1"
  /\ Done("r2") /\ req["r2"].session_id = "s1"
  /\ LlmOkIn(req["r2"].calls)
  /\ req["r2"].response.status = 200
  /\ req["r2"].response.body.message_count = 2

\* C36: in main.py's agent_chat and llm_query, whenever the response text
\* is longer than the 3000-character limit of the TTS service, the text
\* that the handler sends to the TTS service after truncation is at most
\* 3000 characters long.
C36_LegacyTruncationFitsLimit ==
  (/\ last.op \in {"agent_chat", "main_llm_query"}
   /\ Len(last.args.llm_response) > LEGACY_MURF_LIMIT)
    => \A i \in CallsTo(last.result.calls, "TTS") :
         Len(last.result.calls[i].text) <= LEGACY_MURF_LIMIT

\* C37: truncation for speech never alters what the caller or the history
\* gets. A run of chat_with_session whose LLM call succeeded returns the
\* whole LLM response as llm_response and stores it whole as the content
\* of the last, assistant, turn of the session, also when the text sent to
\* the TTS service was the truncated one.
C37_TruncationStaysInsideSpeech ==
  [][\A r \in Requests :
       (Returns(r) /\ LlmOkIn(req'[r].calls))
       => LET id == req[r].session_id
              calls == req'[r].calls
              full == AnswerOf(calls)
              H == sessions'[id]
          IN  /\ req'[r].response.status = 200
              /\ req'[r].response.body.llm_response = full
              /\ H[Len(H)] = Turn("assistant", full)
              /\ \A i \in CallsTo(calls, "TTS") :
                   /\ Len(full) <= MURF_MAX_CHARS => calls[i].text = full
                   /\ Len(full) > MURF_MAX_CHARS =>
                        /\ Len(calls[i].text) <= MURF_MAX_CHARS
                        /\ calls[i].text /= full
    ]_vars

\* an answer one character over the limit was spoken truncated, and the
\* response and the stored turn hold all of it
C37_Witness ==
  /\ Done("r1")
  /\ LlmOkIn(req["r1"].calls)
  /\ \E i \in CallsTo(req["r1"].calls, "TTS") :
       Len(req["r1"].calls[i].text) = MURF_MAX_CHARS - 5
  /\ req["r1"].response.status = 200
  /\ Len(req["r1"].response.body.llm_response) = MURF_MAX_CHARS + 1
  /\ req["r1"].response.body.audio_url = Url1
  /\ req["r1"].session_id \in DOMAIN sessions
  /\ Len(sessions[req["r1"].session_id][2].content) = MURF_MAX_CHARS + 1

====
